---- MODULE Spec2Model ----
(***************************************************************************)
(* Expense tracker: the transaction store (object transactions), the       *)
(* localStorage wrapper it persists through (object storage), validators   *)
(* and the subscription list.                                              *)
(*                                                                         *)
(* Strings whose characters matter (description, notes) are sequences of   *)
(* one-character strings.  Dates and timestamps are integers on one time   *)
(* axis whose unit is a year; 0 stands for an absent or empty date and     *)
(* InvalidDate for a string that new Date() cannot parse.  Amounts are     *)
(* integers; 0 stands for an absent or empty amount as well (both take the *)
(* same `!transaction.amount` branch).  An absent id, paymentMethod or     *)
(* createdAt is the falsy value of its type (0 or "").                     *)
(*                                                                         *)
(* Storage space is counted in entries: one unit per stored transaction    *)
(* and one per stored backup.  The room localStorage has left when a call  *)
(* starts is an input of that call (it depends on the browser and on the   *)
(* other keys of the origin).                                              *)
(***************************************************************************)
EXTENDS Integers, Sequences, FiniteSets, Bags, TLC

----------------------------------------------------------------------------
(* Bounds of the exploration *)

MaxTx == 2          \* records a store that started empty may grow to
MaxOver == 1        \* records a seeded store may hold beyond HistoryLimit
MaxGen == 1         \* calls of helpers.generateId
MaxTicks == 1        \* times the clock advances
MaxFree == 1        \* largest room left in localStorage at a call
MaxBatch == 2       \* rows of one importTransactions batch
MaxStamp == 13      \* latest reading of the clock storage.backup takes
MaxRollup == 3      \* records of a collection that is rolled up
MaxFiltered == 2    \* records of a store that is filtered
DaysPerMonth == 3   \* days of a month of the model's calendar
MaxMonths == 3      \* months asked of getMonthlyTrends
StackLimit == 4     \* calls of storage.set, one inside the other, the call stack has room for

(* Program constants *)

MinDescription == 2
MaxDescription == 100
MaxAmount == 1000000
TenYears == 10
MaxNotes == 500
MaxSanitized == 1000
BackupsKeptOnQuota == 5
BackupsKept == 10
TopCategories == 5
HistoryLimit == 1000

(* Encoding of the inputs *)

InvalidDate == 0 - 1
StartDay == TenYears + 2

----------------------------------------------------------------------------
(* Character-level helpers *)

Rep(c, n) == [i \in 1..n |-> c]

Whitespace == {" "}

WordChars == {"a", "b", "c", "i", "j", "n", "o", "p", "r", "s", "t", "v", "x",
              "J", "O", "N"}

Lower(c) ==
    CASE c = "J" -> "j" [] c = "O" -> "o" [] c = "N" -> "n" [] c = "C" -> "c"
      [] OTHER -> c

\* String.prototype.trim: what lies between the first and the last
\* character that is not whitespace
Trim(s) ==
    LET solid == {i \in DOMAIN s : s[i] \notin Whitespace}
    IN  IF solid = {} THEN <<>>
        ELSE SubSeq(s, CHOOSE i \in solid : \A j \in 1..(i - 1) : s[j] \in Whitespace,
                       CHOOSE i \in solid : \A j \in (i + 1)..Len(s) : s[j] \in Whitespace)

\* s without the characters at the positions in removed
RemoveAt(s, removed) ==
    LET indexed == [i \in DOMAIN s |-> <<i, s[i]>>]
        kept == SelectSeq(indexed, LAMBDA e : e[1] \notin removed)
    IN  [k \in DOMAIN kept |-> kept[k][2]]

\* s.replace(/[<>]/g, '')
StripAngles(s) == SelectSeq(s, LAMBDA c : c \notin {"<", ">"})

JsProtocol == <<"j", "a", "v", "a", "s", "c", "r", "i", "p", "t", ":">>

\* does /javascript:/i match s at position i
ProtocolAt(s, i) ==
    /\ i + Len(JsProtocol) - 1 <= Len(s)
    /\ \A k \in 1..Len(JsProtocol) : Lower(s[i + k - 1]) = JsProtocol[k]

\* s.replace(/javascript:/gi, ''): no two matches of this pattern overlap
\* (no proper prefix of it is a suffix of it), so the left-to-right scan
\* removes every match
StripJsProtocol(s) ==
    LET starts == {i \in DOMAIN s : ProtocolAt(s, i)}
    IN  RemoveAt(s, UNION {i..(i + Len(JsProtocol) - 1) : i \in starts})

\* length of the longest run of \w characters of s that starts at position i
WordRun(s, i) ==
    LET stop == {j \in i..Len(s) : s[j] \notin WordChars}
    IN  IF stop = {} THEN Len(s) - i + 1
        ELSE (CHOOSE j \in stop : \A k \in stop : j <= k) - i

\* length of the match of /on\w+=/i at position i of s, 0 when there is none:
\* "=" is not a \w character, so the greedy \w+ can only be followed by "="
\* right after the whole run
HandlerMatch(s, i) ==
    IF i + 3 <= Len(s) /\ Lower(s[i]) = "o" /\ Lower(s[i + 1]) = "n"
      THEN LET run == WordRun(s, i + 2)
           IN  IF run >= 1 /\ i + 2 + run <= Len(s) /\ s[i + 2 + run] = "="
                 THEN run + 3 ELSE 0
      ELSE 0

\* s.replace(/on\w+=/gi, ''): a match that starts inside another one ends at
\* the same "=", so the scan removes exactly the positions some match covers
StripHandlers(s) ==
    LET starts == {i \in DOMAIN s : HandlerMatch(s, i) > 0}
    IN  RemoveAt(s, UNION {i..(i + HandlerMatch(s, i) - 1) : i \in starts})

\* the text sanitizer the store applies to description and notes
sanitizeInput(input) ==
    LET sanitized == Trim(StripHandlers(StripJsProtocol(StripAngles(input))))
    IN  IF Len(sanitized) > MaxSanitized
          THEN SubSeq(sanitized, 1, MaxSanitized) ELSE sanitized

----------------------------------------------------------------------------
(* validators.validateTransaction: the set of <<field, message>> errors *)

Types == {"income", "expense"}
validMethods == {"cash", "debit", "credit", "bank", "digital"}
BlankCategories == {"", " "}

\* the description checked for presence alone
DescriptionRequiredOnly(t) ==
    IF t.description = <<>> \/ \A i \in DOMAIN t.description : t.description[i] \in Whitespace
      THEN {<<"description", "Description is required">>}
      ELSE {}

DescriptionErrors(t) ==
    IF t.description = <<>> \/ Trim(t.description) = <<>>
      THEN {<<"description", "Description is required">>}
    ELSE IF Len(t.description) < MinDescription
      THEN {<<"description", "Description must be at least 2 characters">>}
    ELSE IF Len(t.description) > MaxDescription
      THEN {<<"description", "Description cannot exceed 100 characters">>}
    ELSE {}

AmountErrors(t) ==
    IF t.amount = 0 THEN {<<"amount", "Amount is required">>}
    ELSE IF t.amount <= 0 THEN {<<"amount", "Amount must be greater than 0">>}
    ELSE IF t.amount > MaxAmount THEN {<<"amount", "Amount cannot exceed 1,000,000">>}
    ELSE {}

TypeErrors(t) ==
    IF t.type \notin Types THEN {<<"type", "Invalid transaction type">>} ELSE {}

CategoryErrors(t) ==
    IF t.category \in BlankCategories
      THEN {<<"category", "Category is required">>} ELSE {}

DateErrors(t, now) ==
    IF t.date = 0 THEN {<<"date", "Date is required">>}
    ELSE IF t.date = InvalidDate THEN {<<"date", "Invalid date format">>}
    ELSE IF t.date > now THEN {<<"date", "Date cannot be in the future">>}
    ELSE IF t.date < now - TenYears
      THEN {<<"date", "Date cannot be more than 10 years ago">>}
    ELSE {}

PaymentMethodErrors(t) ==
    IF t.paymentMethod # "" /\ t.paymentMethod \notin validMethods
      THEN {<<"paymentMethod", "Invalid payment method">>} ELSE {}

NotesErrors(t) ==
    IF t.notes # <<>> /\ Len(t.notes) > MaxNotes
      THEN {<<"notes", "Notes cannot exceed 500 characters">>} ELSE {}

validateTransaction(t, now) ==
    DescriptionErrors(t) \cup AmountErrors(t) \cup TypeErrors(t)
      \cup CategoryErrors(t) \cup DateErrors(t, now)
      \cup PaymentMethodErrors(t) \cup NotesErrors(t)

----------------------------------------------------------------------------
(* State *)

VARIABLES
    txs,        \* localStorage["expense_tracker_transactions"], parsed
    backups,    \* localStorage["expense_tracker_backups"], parsed
    listeners,  \* transactions._eventListeners, as <<event, callback>> pairs
    today,      \* the clock new Date() reads
    nextId,     \* number of ids helpers.generateId has produced
    last,       \* what the most recent store call did and returned
    exported,   \* the text exportTransactions returned last
    pending,    \* per actor, the call it has begun: what it read and means to write
    gone        \* the subscriptions whose unsubscribe function has been called,
                \* each with whether a mutation was persisted since

vars == <<txs, backups, listeners, today, nextId, last, exported, pending, gone>>

\* what the calls of the store proper leave alone
aside == <<exported, pending, gone>>

Actors == {"actor1", "actor2"}

\* nothing exported yet, no call begun, no unsubscribe function called
NoExport == [kind |-> "none"]
Idle == [phase |-> "idle"]
InitAside ==
    /\ exported = NoExport
    /\ pending = [a \in Actors |-> Idle]
    /\ gone = {}

Callbacks == {"cb1", "cb2"}
Subscriptions == {<<"dataChanged", "cb1">>, <<"dataChanged", "cb2">>, <<"other", "cb2">>}

\* helpers.generateId: time and random digits, taken to differ from every
\* id produced or supplied before
generateId(n) == 100 + n

----------------------------------------------------------------------------
(* storage.set and storage.handleQuotaExceeded *)

Min(S) == CHOOSE d \in S : \A e \in S : d <= e
Max(S) == CHOOSE d \in S : \A e \in S : d >= e

\* Array.prototype.sort with a comparator on .date (a stable sort): the
\* entries of each date in their original order, dates in the order asked
RECURSIVE DateBuckets(_, _, _)
DateBuckets(s, ds, ascending) ==
    IF ds = {} THEN <<>>
    ELSE LET d == IF ascending THEN Min(ds) ELSE Max(ds)
         IN  SelectSeq(s, LAMBDA e : e.date = d) \o DateBuckets(s, ds \ {d}, ascending)

\* the comparator with its operands swapped
SortByDateSwapped(s, ascending) ==
    DateBuckets(s, {s[i].date : i \in DOMAIN s}, ~ascending)

SortByDate(s, ascending) == DateBuckets(s, {s[i].date : i \in DOMAIN s}, ascending)

\* room so far below what is stored that no write fits: every
\* localStorage.setItem raises QuotaExceededError
NoRoom == 0 - (HistoryLimit + MaxOver + BackupsKept + 2)

\* localStorage.setItem raises QuotaExceededError when the new value needs
\* more room than is left. st holds, besides what is stored, the calls of
\* storage.set that are under way, one inside the other (frames), and whether
\* the stack runs out inside the try block of set, where the RangeError is
\* caught and set returns false, or outside of it (caught)
RECURSIVE set(_, _, _, _)
RECURSIVE handleQuotaExceeded(_, _)

set(key, value, st, free) ==
    IF st.frames >= StackLimit
      THEN [ok |-> FALSE, st |-> st, free |-> free, cleanups |-> 0,
            overflow |-> ~st.caught]
    ELSE LET delta == Len(value) - Len(st[key])
         IN  IF delta <= free
               THEN [ok |-> TRUE, st |-> [st EXCEPT ![key] = value],
                     free |-> free - delta, cleanups |-> 0, overflow |-> FALSE]
               ELSE LET r == handleQuotaExceeded([st EXCEPT !.frames = @ + 1], free)
                    IN  [ok |-> FALSE, st |-> [r.st EXCEPT !.frames = st.frames],
                         free |-> r.free, cleanups |-> r.cleanups,
                         overflow |-> r.overflow]

\* the remediation without its sorts: the entries that come first are kept
handleQuotaKeepsFirst(st, free) ==
    LET none(s, f) == [ok |-> TRUE, st |-> s, free |-> f, cleanups |-> 0,
                       overflow |-> FALSE]
        r1 == IF Len(st.backups) > BackupsKeptOnQuota
                THEN set("backups", SubSeq(st.backups, 1, BackupsKeptOnQuota), st, free)
                ELSE none(st, free)
        r2 == IF r1.overflow THEN none(r1.st, r1.free)
              ELSE IF Len(r1.st.txs) > HistoryLimit
                THEN set("txs", SubSeq(r1.st.txs, 1, HistoryLimit), r1.st, r1.free)
                ELSE none(r1.st, r1.free)
    IN  [st |-> r2.st, free |-> r2.free, cleanups |-> 1 + r1.cleanups + r2.cleanups,
         overflow |-> r1.overflow \/ r2.overflow]

\* a RangeError raised under the first storage.set leaves the function at
\* once
handleQuotaExceeded(st, free) ==
    LET none(s, f) == [ok |-> TRUE, st |-> s, free |-> f, cleanups |-> 0,
                       overflow |-> FALSE]
        sortedBackups == SortByDate(st.backups, TRUE)
        r1 == IF Len(st.backups) > BackupsKeptOnQuota
                THEN set("backups",
                         SubSeq(sortedBackups,
                                Len(sortedBackups) - BackupsKeptOnQuota + 1,
                                Len(sortedBackups)),
                         st, free)
                ELSE none(st, free)
        transactions == r1.st.txs
        r2 == IF r1.overflow THEN none(r1.st, r1.free)
              ELSE IF Len(transactions) > HistoryLimit
                THEN set("txs", SubSeq(SortByDate(transactions, FALSE), 1, HistoryLimit),
                         r1.st, r1.free)
                ELSE none(r1.st, r1.free)
    IN  [st |-> r2.st, free |-> r2.free, cleanups |-> 1 + r1.cleanups + r2.cleanups,
         overflow |-> r1.overflow \/ r2.overflow]

----------------------------------------------------------------------------
(* The result record of a store call *)

NoErrors == {}

\* transactions.triggerDataChanged: every callback subscribed to
\* 'dataChanged' is called once; the value is the number of calls per callback
\* the callbacks of every event called, not those of 'dataChanged' alone
triggerEveryEvent(ls) ==
    [c \in Callbacks |-> Cardinality({l \in ls : l[2] = c})]

triggerDataChanged(ls) ==
    [c \in Callbacks |-> IF <<"dataChanged", c>> \in ls THEN 1 ELSE 0]

NotNotified == [c \in Callbacks |-> 0]

\* op, id, input: the call, the id it was given (for add: the id of the new
\*   record) and the data or patch it was given
\* ok, error, errors, transaction: the success flag, the error string, the
\*   error map and the record returned
\* wrote, persisted, cleanups, retryFits: whether storage.set was called, what
\*   it returned, how many times handleQuotaExceeded ran, and whether the value
\*   handed to storage.set fits in the room there is when the call returns
\* subscribed, notified, seen: the 'dataChanged' callbacks at the call, how often
\*   each was called, and what transactions.getAll() returns inside a callback
\* trace: the steps of the call in the order the code takes them
\* imported, skipped, rowErrors, total: the counts and errors importTransactions returns
\* merge, overwrite: the options importTransactions was given
\* before: for add, the collection the call started from
\* value: what a query returned
Result(op, id) ==
    [op |-> op, id |-> id, input |-> <<>>,
     ok |-> FALSE, error |-> "", errors |-> NoErrors, transaction |-> <<>>,
     wrote |-> FALSE, persisted |-> FALSE, cleanups |-> 0, retryFits |-> FALSE,
     subscribed |-> {}, notified |-> NotNotified, seen |-> <<>>, trace |-> <<>>,
     imported |-> 0, skipped |-> 0, rowErrors |-> <<>>, total |-> 0,
     merge |-> FALSE, overwrite |-> FALSE,
     before |-> <<>>, value |-> <<>>]

----------------------------------------------------------------------------
(* Inputs *)

BaseInput ==
    [id |-> 0, description |-> <<"a", "b">>, amount |-> 5, type |-> "expense",
     category |-> "food", date |-> StartDay, paymentMethod |-> "",
     notes |-> <<>>, createdAt |-> 0]

\* every upper limit of the validator at once
EdgeInput ==
    [BaseInput EXCEPT !.description = Rep("a", MaxDescription),
                      !.amount = MaxAmount, !.type = "income",
                      !.paymentMethod = "credit", !.notes = <<"<", "b", ">">>]

DescriptionInputs ==
    { <<>>, <<" ", " ">>, <<"a">>, <<" ", "a">>, <<"<", ">">>,
      JsProtocol, <<"O", "n", "x", "=">>, Rep("a", MaxDescription + 1) }

AmountInputs == {0, 0 - 1, MaxAmount + 1}

TypeInputs == {"transfer", ""}

CategoryInputs == {"", " "}

DateInputs == {0, InvalidDate, 1, 2, StartDay + MaxTicks + 1}

PaymentMethodInputs == {"cheque"}

NotesInputs == {Rep("n", MaxNotes + 1)}

SuppliedIds == {1}

AddInputs ==
    {BaseInput, EdgeInput}
      \cup {[BaseInput EXCEPT !.description = d] : d \in DescriptionInputs}
      \cup {[BaseInput EXCEPT !.amount = a] : a \in AmountInputs}
      \cup {[BaseInput EXCEPT !.type = t] : t \in TypeInputs}
      \cup {[BaseInput EXCEPT !.category = c] : c \in CategoryInputs}
      \cup {[BaseInput EXCEPT !.date = d] : d \in DateInputs}
      \cup {[BaseInput EXCEPT !.paymentMethod = m] : m \in PaymentMethodInputs}
      \cup {[BaseInput EXCEPT !.notes = n] : n \in NotesInputs}
      \cup {[BaseInput EXCEPT !.id = i] : i \in SuppliedIds}

\* rows of an import file: what an export of this store holds, one row with the
\* id of another and a description no call has sanitized, and one invalid row
BaseRow == [BaseInput EXCEPT !.paymentMethod = "cash"]

ImportRowInputs ==
    { BaseRow, [BaseRow EXCEPT !.id = 1, !.description = <<"<", ">">>],
      [BaseRow EXCEPT !.amount = 0] }

Batches == UNION {[1..n -> ImportRowInputs] : n \in 0..MaxBatch}

EmptyPatch == [f \in {} |-> 0]

Patches ==
    { EmptyPatch, [amount |-> 7], [amount |-> 0],
      [description |-> <<" ", "a">>], [description |-> <<>>],
      [notes |-> Rep("n", MaxNotes + 1)], [id |-> 1],
      [type |-> "transfer"], [paymentMethod |-> "cheque"] }

seedId(i) == 2000 + i

\* the ids a record may have got from a caller or from helpers.generateId
KnownIds == SuppliedIds \cup {generateId(n) : n \in 1..MaxGen}

\* 3 is the id of no record
TargetIds == KnownIds \cup {3}

\* a store that has outgrown the history limit by one record; the records are
\* valid and not in date order
SeedTransactions ==
    [i \in 1..(HistoryLimit + 1) |->
        [id |-> seedId(i), description |-> <<"a", "b">>, amount |-> 5,
         type |-> "expense", category |-> "food", date |-> StartDay - (i % 3),
         paymentMethod |-> "cash", notes |-> <<>>,
         createdAt |-> StartDay, updatedAt |-> StartDay]]

\* the backup list after six storage.backup() calls
SeedBackups == [i \in 1..(BackupsKeptOnQuota + 1) |-> [date |-> i]]

\* the room left at an update, less what the patch adds to the size of its
\* record: below zero when the patched record has outgrown the room
UpdateRoom == (0 - 1)..MaxFree

\* the collection sizes the exploration covers
InBounds(n) ==
    \/ n <= MaxTx
    \/ n >= HistoryLimit - 1 /\ n <= HistoryLimit + MaxOver

----------------------------------------------------------------------------
(* transactions.add, transactions.update, transactions.delete *)

\* what localStorage holds, and the call stack at the start of a call
Store == [txs |-> txs, backups |-> backups, frames |-> 0, caught |-> FALSE]

\* the callbacks called before storage.set
TriggeredFirst(res, r, value, free, failure) ==
    [res EXCEPT !.ok = r.ok,
                !.error = IF r.ok THEN "" ELSE failure,
                !.transaction = IF r.ok THEN res.transaction ELSE <<>>,
                !.wrote = TRUE,
                !.persisted = r.ok,
                !.cleanups = r.cleanups,
                !.retryFits = Len(value) - Len(r.st.txs) <= r.free,
                !.subscribed = {c \in Callbacks : <<"dataChanged", c>> \in listeners},
                !.notified = triggerDataChanged(listeners),
                !.seen = txs,
                !.trace = res.trace \o <<"trigger", "set", "return">>]

\* the part of a result that storage.set and the notification decide
Committed(res, r, value, free, failure) ==
    [res EXCEPT !.ok = r.ok,
                !.error = IF r.ok THEN "" ELSE failure,
                !.transaction = IF r.ok THEN res.transaction ELSE <<>>,
                !.wrote = TRUE,
                !.persisted = r.ok,
                !.cleanups = r.cleanups,
                !.retryFits = Len(value) - Len(r.st.txs) <= r.free,
                !.subscribed = {c \in Callbacks : <<"dataChanged", c>> \in listeners},
                !.notified = IF r.ok THEN triggerDataChanged(listeners) ELSE NotNotified,
                !.seen = IF r.ok THEN r.st.txs ELSE <<>>,
                !.trace = res.trace \o <<"set">>
                            \o (IF r.ok THEN <<"trigger">> ELSE <<>>) \o <<"return">>]

Add(transactionData, free) ==
    /\ transactionData.id = 0 => nextId < MaxGen
    /\ LET validation == validateTransaction(transactionData, today)
       IN  IF validation # NoErrors
             THEN /\ last' = [Result("add", transactionData.id) EXCEPT
                                 !.input = transactionData,
                                 !.errors = validation,
                                 !.trace = <<"validate", "return">>]
                  /\ UNCHANGED <<txs, backups, listeners, today, nextId>>
             ELSE LET newTransaction ==
                          [id |-> IF transactionData.id # 0 THEN transactionData.id
                                  ELSE generateId(nextId + 1),
                           description |-> sanitizeInput(transactionData.description),
                           amount |-> transactionData.amount,
                           type |-> transactionData.type,
                           category |-> transactionData.category,
                           date |-> transactionData.date,
                           paymentMethod |-> IF transactionData.paymentMethod # ""
                                             THEN transactionData.paymentMethod
                                             ELSE "cash",
                           notes |-> sanitizeInput(transactionData.notes),
                           createdAt |-> today,
                           updatedAt |-> today]
                      allTransactions == Append(txs, newTransaction)
                      r == set("txs", allTransactions, Store, free)
                  IN  /\ InBounds(Len(r.st.txs))
                      /\ txs' = r.st.txs
                      /\ backups' = r.st.backups
                      /\ nextId' = IF transactionData.id # 0 THEN nextId ELSE nextId + 1
                      /\ last' = Committed([Result("add", newTransaction.id)
                                              EXCEPT !.input = transactionData,
                                                     !.transaction = newTransaction,
                                                     !.trace = <<"validate">>,
                                                     !.before = txs],
                                           r, allTransactions, free,
                                           "Failed to save transaction")
                      /\ UNCHANGED <<listeners, today>>

\* Array.prototype.findIndex(t => t.id === id), 0 for -1
findIndex(s, id) ==
    IF \E i \in DOMAIN s : s[i].id = id
      THEN Min({i \in DOMAIN s : s[i].id = id}) ELSE 0

\* {...updates, ...record}
MergeRecordLast(record, updates) ==
    [f \in (DOMAIN record) \cup (DOMAIN updates) |->
        IF f \in DOMAIN record THEN record[f] ELSE updates[f]]

\* {...record, ...updates}
Merge(record, updates) ==
    [f \in (DOMAIN record) \cup (DOMAIN updates) |->
        IF f \in DOMAIN updates THEN updates[f] ELSE record[f]]

Truthy(updates, field) == field \in DOMAIN updates /\ updates[field] # <<>>

Update(id, updates, free) ==
    LET allTransactions == txs
        index == findIndex(allTransactions, id)
    IN  IF index = 0
          THEN /\ last' = [Result("update", id) EXCEPT
                              !.input = updates,
                              !.error = "Transaction not found",
                              !.trace = <<"find", "return">>]
               /\ UNCHANGED <<txs, backups, listeners, today, nextId>>
          ELSE LET merged == [Merge(allTransactions[index], updates)
                                EXCEPT !.updatedAt = today]
                   validation == validateTransaction(merged, today)
                   withDescription ==
                       IF Truthy(updates, "description")
                         THEN [merged EXCEPT !.description = sanitizeInput(updates.description)]
                         ELSE merged
                   updatedTransaction ==
                       IF Truthy(updates, "notes")
                         THEN [withDescription EXCEPT !.notes = sanitizeInput(updates.notes)]
                         ELSE withDescription
                   newAll == [allTransactions EXCEPT ![index] = updatedTransaction]
                   r == set("txs", newAll, Store, free)
               IN  IF validation # NoErrors
                     THEN /\ last' = [Result("update", id) EXCEPT
                                         !.input = updates,
                                         !.errors = validation,
                                         !.trace = <<"find", "validate", "return">>]
                          /\ UNCHANGED <<txs, backups, listeners, today, nextId>>
                     ELSE /\ txs' = r.st.txs
                          /\ backups' = r.st.backups
                          /\ last' = Committed([Result("update", id)
                                                  EXCEPT !.input = updates,
                                                         !.transaction = updatedTransaction,
                                                         !.trace = <<"find", "validate">>],
                                               r, newAll, free,
                                               "Failed to update transaction")
                          /\ UNCHANGED <<listeners, today, nextId>>

\* delete without the comparison of the lengths
DeleteUnchecked(id, free) ==
    LET filteredTransactions == SelectSeq(txs, LAMBDA t : t.id # id)
        r == set("txs", filteredTransactions, Store, free)
    IN  /\ InBounds(Len(r.st.txs))
        /\ txs' = r.st.txs
        /\ backups' = r.st.backups
        /\ last' = Committed([Result("delete", id) EXCEPT !.trace = <<"find">>],
                             r, filteredTransactions, free,
                             "Failed to delete transaction")
        /\ UNCHANGED <<listeners, today, nextId>>

Delete(id, free) ==
    LET allTransactions == txs
        filteredTransactions == SelectSeq(allTransactions, LAMBDA t : t.id # id)
        r == set("txs", filteredTransactions, Store, free)
    IN  /\ InBounds(Len(r.st.txs))
        /\ IF Len(filteredTransactions) = Len(allTransactions)
             THEN /\ last' = [Result("delete", id) EXCEPT
                                 !.error = "Transaction not found",
                                 !.trace = <<"find", "return">>]
                  /\ UNCHANGED <<txs, backups, listeners, today, nextId>>
             ELSE /\ txs' = r.st.txs
                  /\ backups' = r.st.backups
                  /\ last' = Committed([Result("delete", id)
                                          EXCEPT !.trace = <<"find">>],
                                       r, filteredTransactions, free,
                                       "Failed to delete transaction")
                  /\ UNCHANGED <<listeners, today, nextId>>

----------------------------------------------------------------------------
(* transactions.importTransactions *)

\* the duplicate check comparing ids alone
importRowByIdOnly(acc, transaction, index, merge, now) ==
    LET generated == transaction.id = 0
        row == IF generated
                 THEN [transaction EXCEPT !.id = generateId(acc.gen + 1)]
                 ELSE transaction
        gen == IF generated THEN acc.gen + 1 ELSE acc.gen
        isDuplicate == \E i \in DOMAIN acc.existing : acc.existing[i].id = row.id
        validation == validateTransaction(row, now)
    IN  IF merge /\ isDuplicate
          THEN [acc EXCEPT !.gen = gen, !.skipped = acc.skipped + 1]
        ELSE IF validation # NoErrors
          THEN [acc EXCEPT !.gen = gen,
                           !.errors = Append(acc.errors,
                                             <<index, {e[2] : e \in validation}>>)]
        ELSE [acc EXCEPT !.gen = gen,
                         !.imported = acc.imported + 1,
                         !.existing =
                             Append(acc.existing,
                                    [f \in DOMAIN row \cup {"updatedAt"} |->
                                        IF f = "updatedAt" THEN now
                                        ELSE IF f = "createdAt" /\ row.createdAt = 0 THEN now
                                        ELSE row[f]])]

\* one pass of the forEach callback over a row; acc carries the locals
importRow(acc, transaction, index, merge, now) ==
    LET generated == transaction.id = 0
        row == IF generated
                 THEN [transaction EXCEPT !.id = generateId(acc.gen + 1)]
                 ELSE transaction
        gen == IF generated THEN acc.gen + 1 ELSE acc.gen
        isDuplicate ==
            \E i \in DOMAIN acc.existing :
                LET t == acc.existing[i]
                IN  \/ t.id = row.id
                    \/ /\ t.description = row.description
                       /\ t.amount = row.amount
                       /\ t.date = row.date
        validation == validateTransaction(row, now)
    IN  IF merge /\ isDuplicate
          THEN [acc EXCEPT !.gen = gen, !.skipped = acc.skipped + 1]
        ELSE IF validation # NoErrors
          THEN [acc EXCEPT !.gen = gen,
                           !.errors = Append(acc.errors,
                                             <<index, {e[2] : e \in validation}>>)]
        ELSE [acc EXCEPT !.gen = gen,
                         !.imported = acc.imported + 1,
                         !.existing =
                             Append(acc.existing,
                                    Merge(row,
                                          [createdAt |-> IF row.createdAt # 0
                                                         THEN row.createdAt ELSE now,
                                           updatedAt |-> now]))]

\* the loop left at the first row that fails validation
RECURSIVE importRowsUntilError(_, _, _, _, _)
importRowsUntilError(acc, rows, index, merge, now) ==
    IF index > Len(rows) \/ acc.errors # <<>> THEN acc
    ELSE importRowsUntilError(importRow(acc, rows[index], index, merge, now),
                              rows, index + 1, merge, now)

RECURSIVE importRows(_, _, _, _, _)
importRows(acc, rows, index, merge, now) ==
    IF index > Len(rows) THEN acc
    ELSE importRows(importRow(acc, rows[index], index, merge, now),
                    rows, index + 1, merge, now)

ImportTransactions(newTransactions, merge, overwrite, free) ==
    LET start == [existing |-> IF overwrite THEN <<>> ELSE txs,
                  imported |-> 0, skipped |-> 0, errors |-> <<>>, gen |-> nextId]
        done == importRows(start, newTransactions, 1, merge, today)
        r == set("txs", done.existing, Store, free)
    IN  /\ InBounds(Len(r.st.txs))
        /\ done.gen <= MaxGen
        /\ txs' = r.st.txs
        /\ backups' = r.st.backups
        /\ nextId' = done.gen
        /\ last' = [Committed([Result("import", 0) EXCEPT !.trace = <<"rows">>],
                              r, done.existing, free, "")
                      EXCEPT !.input = newTransactions,
                             !.merge = merge,
                             !.overwrite = overwrite,
                             !.imported = done.imported,
                             !.skipped = done.skipped,
                             !.rowErrors = done.errors,
                             !.total = Len(done.existing)]
        /\ UNCHANGED <<listeners, today>>

----------------------------------------------------------------------------
(* add and delete of several actors on one localStorage: each call reads the *)
(* collection, and writes it whole at a later step                           *)

\* the array the call hands to storage.set, had it read the collection anew
\* at the write
WrittenValueReread(call, stored) ==
    IF call.op = "add"
      THEN Append(stored, call.transaction)
      ELSE SelectSeq(stored, LAMBDA t : t.id # call.id)

\* the array the call hands to storage.set: the one it built from what it read
WrittenValue(call, stored) == call.value

\* transactions.add up to the push: validation, getAll, the new record
ReadAdd(actor, transactionData) ==
    /\ pending[actor].phase # "read"
    /\ transactionData.id = 0 => nextId < MaxGen
    /\ validateTransaction(transactionData, today) = NoErrors
    /\ LET allTransactions == txs
           newTransaction ==
               [id |-> IF transactionData.id # 0 THEN transactionData.id
                       ELSE generateId(nextId + 1),
                description |-> sanitizeInput(transactionData.description),
                amount |-> transactionData.amount,
                type |-> transactionData.type,
                category |-> transactionData.category,
                date |-> transactionData.date,
                paymentMethod |-> IF transactionData.paymentMethod # ""
                                  THEN transactionData.paymentMethod
                                  ELSE "cash",
                notes |-> sanitizeInput(transactionData.notes),
                createdAt |-> today,
                updatedAt |-> today]
       IN  /\ pending' = [pending EXCEPT ![actor] =
                             [phase |-> "read", op |-> "add", id |-> newTransaction.id,
                              input |-> transactionData,
                              transaction |-> newTransaction,
                              allTransactions |-> allTransactions,
                              value |-> Append(allTransactions, newTransaction)]]
           /\ nextId' = IF transactionData.id # 0 THEN nextId ELSE nextId + 1
    /\ UNCHANGED <<txs, backups, listeners, today, last, exported, gone>>

\* transactions.delete up to the comparison of the lengths, when the id is found
ReadDelete(actor, id) ==
    /\ pending[actor].phase # "read"
    /\ LET allTransactions == txs
           filteredTransactions == SelectSeq(allTransactions, LAMBDA t : t.id # id)
       IN  /\ Len(filteredTransactions) # Len(allTransactions)
           /\ pending' = [pending EXCEPT ![actor] =
                             [phase |-> "read", op |-> "delete", id |-> id,
                              input |-> <<>>,
                              transaction |-> <<>>,
                              allTransactions |-> allTransactions,
                              value |-> filteredTransactions]]
    /\ UNCHANGED <<txs, backups, listeners, today, nextId, last, exported, gone>>

\* the rest of the call: storage.set, the notification, the result
Write(actor, free) ==
    /\ pending[actor].phase = "read"
    /\ LET call == pending[actor]
           value == WrittenValue(call, txs)
           r == set("txs", value, Store, free)
       IN  /\ InBounds(Len(r.st.txs))
           /\ txs' = r.st.txs
           /\ backups' = r.st.backups
           /\ last' = Committed([Result(call.op, call.id)
                                   EXCEPT !.input = call.input,
                                          !.transaction = call.transaction,
                                          !.trace = IF call.op = "add"
                                                      THEN <<"validate">> ELSE <<"find">>,
                                          !.before = call.allTransactions],
                                r, value, free,
                                IF call.op = "add" THEN "Failed to save transaction"
                                ELSE "Failed to delete transaction")
           /\ pending' = [pending EXCEPT ![actor] =
                             [phase |-> "done", op |-> call.op, id |-> call.id,
                              input |-> call.input,
                              transaction |-> call.transaction,
                              allTransactions |-> call.allTransactions,
                              value |-> call.value,
                              ok |-> r.ok,
                              overwrote |-> txs]]
    /\ UNCHANGED <<listeners, today, nextId, exported, gone>>

----------------------------------------------------------------------------
(* storage.set called by itself *)

\* storage.set(key, value): what it returns, or the RangeError that leaves it
StorageSet(key, value, free, caught) ==
    LET r == set(key, value, [Store EXCEPT !.caught = caught], free)
    IN  /\ txs' = r.st.txs
        /\ backups' = r.st.backups
        /\ last' = [Result("set", 0) EXCEPT
                       !.input = <<key, free, caught>>,
                       !.ok = r.ok,
                       !.error = IF r.overflow THEN "RangeError" ELSE "",
                       !.wrote = TRUE,
                       !.persisted = r.ok,
                       !.cleanups = r.cleanups,
                       !.before = txs,
                       !.trace = <<"set", IF r.overflow THEN "throw" ELSE "return">>]
        /\ UNCHANGED <<listeners, today, nextId>>

----------------------------------------------------------------------------
(* storage.backup *)

\* the room left when the backup list is written, less what the new backup
\* needs beyond an entry it replaces
BackupRoom == (0 - 1)..MaxFree

\* the readings the clock may give: later than the date of every backup kept
Stamps(list) ==
    LET latest == IF list = <<>> THEN 0 ELSE Max({list[i].date : i \in DOMAIN list})
    IN  {now \in {latest + 1, latest + 2} : now <= MaxStamp}

\* storage.backup(): the entry is pushed, the list is cut to the latest
\* BackupsKept and written, then the timestamp is written under LAST_BACKUP;
\* the value storage.set returns is not looked at. The data of a backup and
\* the value under LAST_BACKUP are read by no call modelled here.
Backup(now, free, stampFits) ==
    LET pushed == Append(backups, [date |-> now])
        kept == IF Len(pushed) > BackupsKept
                  THEN SubSeq(SortByDate(pushed, TRUE),
                              Len(pushed) - BackupsKept + 1, Len(pushed))
                  ELSE pushed
        r1 == set("backups", kept, Store, free)
        r2 == IF stampFits
                THEN [st |-> r1.st, cleanups |-> 0]
                ELSE handleQuotaExceeded(r1.st, r1.free)
    IN  /\ txs' = r2.st.txs
        /\ backups' = r2.st.backups
        /\ last' = [Result("backup", 0) EXCEPT
                       !.input = [date |-> now],
                       !.ok = TRUE,
                       !.wrote = TRUE,
                       !.persisted = r1.ok /\ stampFits,
                       !.cleanups = r1.cleanups + r2.cleanups,
                       !.trace = <<"push", "set", "set", "return">>]
        /\ UNCHANGED <<listeners, today, nextId>>

----------------------------------------------------------------------------
(* storage.restore *)

\* the categories stored before a restore
StoredCategories == <<"food", "salary">>

\* backupData is null or an object; a field it lacks is undefined
NoData == [null |-> TRUE]
DataOf(fields) == fields @@ [null |-> FALSE]

\* storage.restore(backupData): transactions and categories are written one
\* after the other and the value storage.set returns is not looked at. The
\* model's backups carry neither budgets nor settings, so these two writes
\* are skipped. The categories are stored in no variable of the model: the
\* result tells what is persisted under their key after the call
Restore(backupData, free, categoriesFit) ==
    IF backupData.null \/ "transactions" \notin DOMAIN backupData
          \/ "categories" \notin DOMAIN backupData
      THEN /\ last' = [Result("restore", 0) EXCEPT
                          !.input = backupData,
                          !.error = "Invalid backup data",
                          !.before = txs,
                          !.value = [categories |-> StoredCategories],
                          !.trace = <<"throw", "return">>]
           /\ UNCHANGED <<txs, backups, listeners, today, nextId>>
      ELSE LET r1 == set("txs", backupData.transactions, Store, free)
               r2 == IF categoriesFit
                       THEN [st |-> r1.st, cleanups |-> 0]
                       ELSE handleQuotaExceeded(r1.st, r1.free)
           IN  /\ txs' = r2.st.txs
               /\ backups' = r2.st.backups
               /\ last' = [Result("restore", 0) EXCEPT
                              !.input = backupData,
                              !.ok = TRUE,
                              !.wrote = TRUE,
                              !.persisted = r1.ok /\ categoriesFit,
                              !.cleanups = r1.cleanups + r2.cleanups,
                              !.before = txs,
                              !.value = [categories |->
                                            IF categoriesFit THEN backupData.categories
                                            ELSE StoredCategories],
                              !.trace = <<"set", "set", "return">>]
               /\ UNCHANGED <<listeners, today, nextId>>

----------------------------------------------------------------------------
(* transactions.filter *)

\* String.prototype.toLowerCase
toLowerCase(s) == [i \in DOMAIN s |-> Lower(s[i])]

\* String.prototype.includes
includes(s, term) ==
    \E i \in 0..(Len(s) - Len(term)) : SubSeq(s, i + 1, i + Len(term)) = term

\* a criterion is a field of filters; one that is left out is undefined
Given(filters, f) == f \in DOMAIN filters

NoFilters == [f \in {} |-> 0]

\* Instants are counted in half days. A date text 'YYYY-MM-DD' is the
\* midnight of that day in UTC; new Date(year, month, day) is the midnight of
\* that day in the zone of the machine, zone half days ahead of UTC
Zones == {0 - 1, 0, 1}
utcMidnight(day) == 2 * day
localMidnight(day, zone) == 2 * day - zone

\* the calendar day of an instant in UTC (toISOString) and in the zone of
\* the machine (getFullYear, getMonth, getDate)
utcDay(instant) == instant \div 2
localDay(instant, zone) == (instant + zone) \div 2

\* new Date(filters.startDate), new Date(filters.endDate): the bounds are
\* date texts, or Date objects when filters is marked with instants
boundOf(filters, value) ==
    IF "instants" \in DOMAIN filters THEN value ELSE utcMidnight(value)

\* the comparison with the end left out of the range
beforeEnd(date, endDate) == date < endDate

\* new Date(t.date) <= new Date(filters.endDate)
notAfter(date, endDate) == date <= endDate

filter(all, filters) ==
    LET byType ==
            IF Given(filters, "type") /\ filters.type \notin {"", "all"}
              THEN SelectSeq(all, LAMBDA t : t.type = filters.type) ELSE all
        byCategory ==
            IF Given(filters, "categories") /\ filters.categories # {}
              THEN SelectSeq(byType, LAMBDA t : t.category \in filters.categories)
              ELSE byType
        byMethod ==
            IF Given(filters, "paymentMethods") /\ filters.paymentMethods # {}
              THEN SelectSeq(byCategory, LAMBDA t : t.paymentMethod \in filters.paymentMethods)
              ELSE byCategory
        fromStart ==
            IF Given(filters, "startDate") /\ filters.startDate # 0
              THEN SelectSeq(byMethod, LAMBDA t : utcMidnight(t.date)
                                                      >= boundOf(filters, filters.startDate))
              ELSE byMethod
        toEnd ==
            IF Given(filters, "endDate") /\ filters.endDate # 0
              THEN SelectSeq(fromStart, LAMBDA t : notAfter(utcMidnight(t.date),
                                                             boundOf(filters, filters.endDate)))
              ELSE fromStart
        fromMin ==
            IF Given(filters, "minAmount")
              THEN SelectSeq(toEnd, LAMBDA t : t.amount >= filters.minAmount)
              ELSE toEnd
        toMax ==
            IF Given(filters, "maxAmount")
              THEN SelectSeq(fromMin, LAMBDA t : t.amount <= filters.maxAmount)
              ELSE fromMin
    IN  IF Given(filters, "search") /\ filters.search # <<>>
          THEN LET searchTerm == toLowerCase(filters.search)
               IN  SelectSeq(toMax,
                             LAMBDA t : \/ includes(toLowerCase(t.description), searchTerm)
                                        \/ /\ t.notes # <<>>
                                           /\ includes(toLowerCase(t.notes), searchTerm))
          ELSE toMax

----------------------------------------------------------------------------
(* JSON text, export and import of files *)

\* the order in which add writes the fields of a record; JSON.stringify
\* writes the fields a record has, in the order they were set
FieldOrder ==
    <<"id", "description", "amount", "type", "category", "date", "paymentMethod",
      "notes", "createdAt", "updatedAt">>

\* JSON.stringify of an array of records: per record its "key": value pairs
JSONstringify(array) ==
    [i \in DOMAIN array |->
        LET keys == SelectSeq(FieldOrder, LAMBDA k : k \in DOMAIN array[i])
        IN  [j \in DOMAIN keys |-> <<keys[j], array[i][keys[j]]>>]]

\* JSON.parse of such a text
JSONparse(text) ==
    [i \in DOMAIN text |->
        [k \in {text[i][j][1] : j \in DOMAIN text[i]} |->
            text[i][CHOOSE j \in DOMAIN text[i] :
                        /\ text[i][j][1] = k
                        /\ \A h \in DOMAIN text[i] : text[i][h][1] = k => h <= j][2]]]

\* transactions.exportTransactions('json', filters)
ExportTransactions(filters) ==
    /\ exported' = [kind |-> "array", text |-> JSONstringify(filter(txs, filters))]
    /\ last' = [Result("exportTransactions", 0) EXCEPT !.input = filters, !.ok = TRUE,
                                                      !.trace = <<"filter", "return">>]
    /\ UNCHANGED <<txs, backups, listeners, today, nextId>>

\* storage.exportToFile('json'): the object written to the file has the
\* collection under "transactions"
ExportToFile ==
    /\ exported' = [kind |-> "object", text |-> JSONstringify(txs)]
    /\ last' = [Result("exportToFile", 0) EXCEPT !.ok = TRUE, !.trace = <<"return">>]
    /\ UNCHANGED <<txs, backups, listeners, today, nextId>>

\* storage.clearAll: the keys of storage.keys are removed; the backups are
\* under a key that is not among them
ClearAll ==
    /\ txs' = <<>>
    /\ last' = [Result("clearAll", 0) EXCEPT !.ok = TRUE, !.trace = <<"return">>]
    /\ UNCHANGED <<backups, listeners, today, nextId, exported>>

\* transactions.importTransactions(JSON.parse(text), options) on the text
\* exportTransactions returned
ImportExported(merge, overwrite, free) ==
    /\ exported.kind = "array"
    /\ ImportTransactions(JSONparse(exported.text), merge, overwrite, free)
    /\ UNCHANGED exported

\* Array.from(new Map(merged.map(item => [item.id, item])).values()): one
\* entry per id, at the place the id comes first, with the value it has last
UniqueById(merged) ==
    LET firsts == SelectSeq([i \in DOMAIN merged |-> i],
                            LAMBDA i : \A h \in 1..(i - 1) : merged[h].id # merged[i].id)
    IN  [n \in DOMAIN firsts |->
            merged[CHOOSE j \in DOMAIN merged :
                      /\ merged[j].id = merged[firsts[n]].id
                      /\ \A h \in DOMAIN merged :
                            merged[h].id = merged[firsts[n]].id => h <= j]]

\* storage.importFromFile(file) on a file with the exported text
ImportFromFile(free) ==
    /\ exported.kind # "none"
    /\ IF exported.kind # "object"
         THEN /\ last' = [Result("importFromFile", 0) EXCEPT
                             !.error = "Invalid data format: transactions array required",
                             !.trace = <<"parse", "return">>]
              /\ UNCHANGED <<txs, backups, listeners, today, nextId, exported>>
         ELSE LET data == JSONparse(exported.text)
                  existingTransactions == txs
                  mergedTransactions == existingTransactions \o data
                  uniqueTransactions == UniqueById(mergedTransactions)
                  r == set("txs", uniqueTransactions, Store, free)
              IN  /\ InBounds(Len(r.st.txs))
                  /\ txs' = r.st.txs
                  /\ backups' = r.st.backups
                  /\ last' = [Result("importFromFile", 0) EXCEPT
                                 !.input = data,
                                 !.ok = TRUE,
                                 !.wrote = TRUE,
                                 !.persisted = r.ok,
                                 !.cleanups = r.cleanups,
                                 !.imported = Len(data),
                                 !.total = Len(uniqueTransactions),
                                 !.trace = <<"parse", "set", "return">>]
                  /\ UNCHANGED <<listeners, today, nextId, exported>>

----------------------------------------------------------------------------
(* The queries of transactions *)

\* transactions.getAll: storage.get parses the stored text, so every call has
\* an array of its own
getAll(stored) == stored

\* the letters of a category or of a payment method
Spell(word) ==
    CASE word = "food" -> <<"f", "o", "o", "d">>
      [] word = "salary" -> <<"s", "a", "l", "a", "r", "y">>
      [] word = "cash" -> <<"c", "a", "s", "h">>
      [] word = "debit" -> <<"d", "e", "b", "i", "t">>
      [] word = "credit" -> <<"c", "r", "e", "d", "i", "t">>
      [] word = "bank" -> <<"b", "a", "n", "k">>
      [] word = "digital" -> <<"d", "i", "g", "i", "t", "a", "l">>
      [] word = "cheque" -> <<"c", "h", "e", "q", "u", "e">>
      [] word = " " -> <<" ">>
      [] OTHER -> <<>>

\* a const: the value is computed once and the body goes on with it
With(value, Body(_)) == CHOOSE result \in {Body(v) : v \in {value}} : TRUE

RECURSIVE SumAmounts(_)
SumAmounts(s) == IF s = <<>> THEN 0 ELSE s[1].amount + SumAmounts(Tail(s))

\* the keys of an object filled record by record: the values of the field in
\* the order they come first
KeysInOrder(s, field) ==
    LET firsts == SelectSeq([i \in DOMAIN s |-> i],
                            LAMBDA i : \A h \in 1..(i - 1) : s[h][field] # s[i][field])
    IN  [n \in DOMAIN firsts |-> s[firsts[n]][field]]

\* Array.prototype.sort((a, b) => b.total - a.total), a stable sort
RECURSIVE TotalBuckets(_, _)
TotalBuckets(s, totals) ==
    IF totals = {} THEN <<>>
    ELSE LET most == Max(totals)
         IN  SelectSeq(s, LAMBDA e : e.total = most) \o TotalBuckets(s, totals \ {most})

SortByTotal(s) ==
    With(s, LAMBDA entries : TotalBuckets(entries, {entries[i].total : i \in DOMAIN entries}))

\* a quotient, kept as numerator and denominator
Ratio(n, d) == <<n, d>>

\* a month has DaysPerMonth days here; months are numbered through the years
monthOf(day) == day \div DaysPerMonth
firstDay(month) == month * DaysPerMonth
lastDay(month) == month * DaysPerMonth + DaysPerMonth - 1

\* the year-month key of a date text: the month of its instant in the zone of
\* the machine
monthKey(date, zone) == monthOf(localDay(utcMidnight(date), zone))

getByDateRange(stored, startDate, endDate) ==
    filter(getAll(stored), [startDate |-> startDate, endDate |-> endDate])

\* the local midnights of the first and of the last day of the month, written
\* as the UTC days toISOString gives, make the range
getByMonth(stored, month, zone) ==
    getByDateRange(stored, utcDay(localMidnight(firstDay(month), zone)),
                   utcDay(localMidnight(lastDay(month), zone)))

\* the sort is in place, on the array getAll gave this call; the value is the
\* slice, stored is what localStorage holds afterwards
getRecentInPlace(stored, limit) ==
    LET sorted == SortByDate(getAll(stored), FALSE)
    IN  [value |-> SubSeq(sorted, 1, Min({limit, Len(sorted)})), stored |-> sorted]

getRecent(stored, limit) ==
    LET allTransactions == getAll(stored)
        sorted == SortByDate(allTransactions, FALSE)
    IN  [value |-> SubSeq(sorted, 1, Min({limit, Len(sorted)})), stored |-> stored]

getStatistics(stored, filters, zone) ==
    With(filter(getAll(stored), filters), LAMBDA filteredTransactions :
      LET incomeOf(s) == SumAmounts(SelectSeq(s, LAMBDA t : t.type = "income"))
          expenseOf(s) == SumAmounts(SelectSeq(s, LAMBDA t : t.type # "income"))
          inCategory(c) == SelectSeq(filteredTransactions, LAMBDA t : t.category = c)
          inMonth(m) == SelectSeq(filteredTransactions, LAMBDA t : monthKey(t.date, zone) = m)
          byMethod(p) == SelectSeq(filteredTransactions, LAMBDA t : t.paymentMethod = p)
      IN  With(<<incomeOf(filteredTransactions), expenseOf(filteredTransactions),
                 Len(filteredTransactions), KeysInOrder(filteredTransactions, "category")>>,
               LAMBDA sums :
          LET income == sums[1]
              expense == sums[2]
              count == sums[3]
              categories == sums[4]
          IN  With([c \in {categories[n] : n \in DOMAIN categories} |->
                       With(inCategory(c), LAMBDA of :
                            [total |-> SumAmounts(of), count |-> Len(of),
                             type |-> of[1].type])],
                   LAMBDA byCategory :
              With(SortByTotal([n \in DOMAIN categories |->
                                   [category |-> categories[n],
                                    total |-> byCategory[categories[n]].total,
                                    count |-> byCategory[categories[n]].count,
                                    type |-> byCategory[categories[n]].type]]),
                   LAMBDA sorted :
                [total |-> income - expense,
                 count |-> count,
                 income |-> income,
                 expense |-> expense,
                 byCategory |-> byCategory,
                 byMonth |->
                    [m \in {monthKey(filteredTransactions[i].date, zone) :
                               i \in DOMAIN filteredTransactions} |->
                        With(inMonth(m), LAMBDA of :
                             [income |-> incomeOf(of), expense |-> expenseOf(of),
                              total |-> incomeOf(of) - expenseOf(of)])],
                 byPaymentMethod |->
                    [p \in {filteredTransactions[i].paymentMethod :
                               i \in DOMAIN filteredTransactions} |->
                        With(byMethod(p), LAMBDA of :
                             [total |-> SumAmounts(of), count |-> Len(of)])],
                 incomePercentage |->
                    IF income > 0 THEN Ratio(income * 100, income + expense)
                    ELSE Ratio(0, 1),
                 expensePercentage |->
                    IF expense > 0 THEN Ratio(expense * 100, income + expense)
                    ELSE Ratio(0, 1),
                 topCategories |-> SubSeq(sorted, 1, Min({TopCategories, Len(sorted)})),
                 averageTransaction |->
                    IF count > 0 THEN Ratio(income + expense, count) ELSE Ratio(0, 1)]))))

\* the property names an object literal {} inherits from Object.prototype,
\* among the categories of the model
Inherited == {"constructor"}

\* totals[category] after the loop over s. For an inherited name the first
\* test !totals[category] sees the inherited function, which is truthy: the
\* entry is never set to 0 and += appends the amounts to the function's text
totalOf(s, category) ==
    With(SelectSeq(s, LAMBDA t : t.category = category), LAMBDA of :
         IF category \in Inherited
           THEN <<"function Object() { [native code] }">> \o [i \in DOMAIN of |-> of[i].amount]
           ELSE SumAmounts(of))

\* Object.entries(totals).map(([category, total]) => ({ category, total }))
categoryEntries(s) ==
    With(KeysInOrder(s, "category"), LAMBDA categories :
         [n \in DOMAIN categories |->
             [category |-> categories[n], total |-> totalOf(s, categories[n])]])

\* .sort((a, b) => b.total - a.total): with a total that is text the
\* difference is NaN, which sort takes for 0. When that makes the comparison
\* inconsistent (two numbers differ, yet both equal the text) the order is
\* whatever the engine's sort produces
sortOutcomes(entries) ==
    LET texts == {i \in DOMAIN entries : entries[i].category \in Inherited}
        numbers == DOMAIN entries \ texts
    IN  IF texts = {} THEN {SortByTotal(entries)}
        ELSE IF \A i, j \in numbers : entries[i].total = entries[j].total THEN {entries}
        ELSE {[i \in DOMAIN entries |-> entries[p[i]]] : p \in Permutations(DOMAIN entries)}

\* type is "" for null; the value is the set of the arrays the call may return
getCategoryTotals(stored, type, filters) ==
    With(IF type # "" THEN filter(getAll(stored), Merge(filters, [type |-> type]))
         ELSE filter(getAll(stored), filters),
         LAMBDA filteredTransactions : sortOutcomes(categoryEntries(filteredTransactions)))

\* one entry per month, the earliest first, the month of now last; the
\* bounds handed to getStatistics are Date objects, the local midnights of the
\* first and of the last day of the month
getMonthlyTrends(stored, months, now, zone) ==
    [n \in 1..months |->
        LET month == monthOf(now) - (months - n)
            monthlyTransactions == getByMonth(stored, month, zone)
        IN  With(getStatistics(stored,
                               [startDate |-> localMidnight(firstDay(month), zone),
                                endDate |-> localMidnight(lastDay(month), zone),
                                instants |-> TRUE],
                               zone),
                 LAMBDA stats :
                   [month |-> month, income |-> stats.income, expense |-> stats.expense,
                    total |-> stats.total, transactionCount |-> stats.count])]

search(stored, query, filters) ==
    IF query = <<>> \/ Trim(query) = <<>>
      THEN filter(getAll(stored), filters)
      ELSE With(<<Trim(toLowerCase(query)), filter(getAll(stored), filters)>>,
                LAMBDA consts :
                  LET searchTerm == consts[1]
                      allTransactions == consts[2]
                  IN  SelectSeq(allTransactions,
                         LAMBDA t :
                            \/ includes(toLowerCase(t.description), searchTerm)
                            \/ t.notes # <<>> /\ includes(toLowerCase(t.notes), searchTerm)
                            \/ includes(toLowerCase(Spell(t.category)), searchTerm)
                            \/ includes(toLowerCase(Spell(t.paymentMethod)), searchTerm)))

----------------------------------------------------------------------------
(* calculations: balance and totals *)

\* an argument that may be null
Null == [null |-> TRUE, items |-> <<>>]
Given_(items) == [null |-> FALSE, items |-> items]

\* the outcome of a call: a value, or a TypeError thrown
Thrown == [threw |-> TRUE, value |-> 0]
Returned(v) == [threw |-> FALSE, value |-> v]

\* the parameter named transactions hides the module of that name: with null
\* the call transactions.getAll() is made on null
calculateBalance(arg) ==
    IF arg.null THEN Thrown
    ELSE Returned(SumAmounts(SelectSeq(arg.items, LAMBDA t : t.type = "income"))
                    - SumAmounts(SelectSeq(arg.items, LAMBDA t : t.type # "income")))

\* filters is {} unless given; when it is truthy, transactions.filter(filters)
\* is Array.prototype.filter of the array passed in, called with an object
\* that is no function
calculateTotalIncome(arg, filtersTruthy) ==
    IF arg.null THEN Thrown
    ELSE IF filtersTruthy THEN Thrown
    ELSE Returned(SumAmounts(SelectSeq(arg.items, LAMBDA t : t.type = "income")))

calculateTotalExpenses(arg, filtersTruthy) ==
    IF arg.null THEN Thrown
    ELSE IF filtersTruthy THEN Thrown
    ELSE Returned(SumAmounts(SelectSeq(arg.items, LAMBDA t : t.type = "expense")))

calculateNetIncome(arg, filtersTruthy) ==
    LET income == calculateTotalIncome(arg, filtersTruthy)
        expenses == calculateTotalExpenses(arg, filtersTruthy)
    IN  IF income.threw \/ expenses.threw THEN Thrown
        ELSE Returned(income.value - expenses.value)

\* type is "" for null; with null for the collection, transactions.getAll()
\* is called on null
calculateCategoryTotals(type, arg) ==
    IF arg.null THEN {Thrown}
    ELSE With(SelectSeq(arg.items, LAMBDA t : type = "" \/ t.type = type), LAMBDA trans :
              {Returned(sorted) : sorted \in sortOutcomes(categoryEntries(trans))})

\* a <= b for two quotients with positive denominators
LessEq(a, b) == a[1] * b[2] <= b[1] * a[2]

calculateSavingsRate(income, expenses) ==
    IF income <= 0 THEN Ratio(0, 1) ELSE Ratio((income - expenses) * 100, income)

\* the body of calculateExpenseRatios once totalExpenses is known: the set of
\* the arrays it may return. The percentage of a total that is text is NaN
expenseRatiosOf(trans, totalExpenses) ==
    IF totalExpenses = 0 THEN {<<>>}
    ELSE {[n \in DOMAIN categoryTotals |->
             [category |-> categoryTotals[n].category,
              amount |-> categoryTotals[n].total,
              percentage |-> IF categoryTotals[n].category \in Inherited THEN "NaN"
                             ELSE Ratio(categoryTotals[n].total * 100, totalExpenses)]] :
          categoryTotals \in
             {r.value : r \in calculateCategoryTotals("expense", Given_(trans))}}

\* calculateTotalExpenses is called without filters, so with filters = {}
calculateExpenseRatios(arg) ==
    IF arg.null THEN {Thrown}
    ELSE With(calculateTotalExpenses(arg, TRUE), LAMBDA totalExpenses :
              IF totalExpenses.threw THEN {Thrown}
              ELSE {Returned(ratios) :
                       ratios \in expenseRatiosOf(arg.items, totalExpenses.value)})

\* days is 30, one unit of the date scale here
calculateAverageDailySpending(arg, days, now) ==
    IF arg.null THEN Thrown
    ELSE Returned(Ratio(SumAmounts(SelectSeq(arg.items,
                            LAMBDA t : t.type = "expense" /\ t.date >= now - 1)),
                        days))

RECURSIVE SumOf(_)
SumOf(array) == IF array = <<>> THEN 0 ELSE array[1] + SumOf(Tail(array))

\* the population variance: sum((v - mean)^2) / n = (n * sum(v^2) - sum(v)^2) / n^2
calculateVariance(array) ==
    IF Len(array) = 0 THEN Ratio(0, 1)
    ELSE Ratio(Len(array) * SumOf([i \in DOMAIN array |-> array[i] * array[i]])
                  - SumOf(array) * SumOf(array),
               Len(array) * Len(array))

\* the four rules, the cap and the grade, for income and expenses of the
\* month, the percentage of the first expense ratio, the variance of the
\* monthly incomes and thirty times the average daily spending
healthRules(income, expenses, topCategoryPercentage, incomeVariance, averageExpense) ==
    LET savingsRate == calculateSavingsRate(income, expenses)
        rule1 == IF LessEq(Ratio(20, 1), savingsRate)
                   THEN [delta |-> 30, feedback |-> "Excellent savings rate!"]
                 ELSE IF LessEq(Ratio(10, 1), savingsRate)
                   THEN [delta |-> 20, feedback |-> "Good savings rate"]
                 ELSE IF LessEq(Ratio(5, 1), savingsRate)
                   THEN [delta |-> 10, feedback |-> "Average savings rate"]
                 ELSE [delta |-> 0 - 10, feedback |-> "Low savings rate"]
        rule2 == IF LessEq(topCategoryPercentage, Ratio(30, 1))
                   THEN [delta |-> 20, feedback |-> "Well-diversified expenses"]
                 ELSE IF LessEq(topCategoryPercentage, Ratio(50, 1))
                   THEN [delta |-> 10, feedback |-> "Moderately diversified expenses"]
                 ELSE [delta |-> 0 - 10, feedback |-> "High concentration in one category"]
        rule3 == IF LessEq(incomeVariance, Ratio(1, 10))
                   THEN [delta |-> 25, feedback |-> "Stable income stream"]
                 ELSE IF LessEq(incomeVariance, Ratio(3, 10))
                   THEN [delta |-> 15, feedback |-> "Moderately stable income"]
                 ELSE [delta |-> 0 - 15, feedback |-> "Highly variable income"]
        debtRatio == Ratio(averageExpense[1],
                           averageExpense[2] * (IF income # 0 THEN income ELSE 1))
        rule4 == IF LessEq(debtRatio, Ratio(3, 10))
                   THEN [delta |-> 25, feedback |-> "Healthy debt-to-income ratio"]
                 ELSE IF LessEq(debtRatio, Ratio(5, 10))
                   THEN [delta |-> 15, feedback |-> "Moderate debt-to-income ratio"]
                 ELSE [delta |-> 0 - 25, feedback |-> "High debt-to-income ratio"]
        uncapped == 100 + rule1.delta + rule2.delta + rule3.delta + rule4.delta
        score == Max({0, Min({100, uncapped})})
        grade == IF score >= 90 THEN "A+"
                 ELSE IF score >= 80 THEN "A"
                 ELSE IF score >= 70 THEN "B"
                 ELSE IF score >= 60 THEN "C"
                 ELSE IF score >= 50 THEN "D"
                 ELSE "F"
    IN  [score |-> score, grade |-> grade,
         feedback |-> <<rule1.feedback, rule2.feedback, rule3.feedback, rule4.feedback>>,
         deltas |-> <<rule1.delta, rule2.delta, rule3.delta, rule4.delta>>,
         metrics |-> [savingsRate |-> savingsRate, debtRatio |-> debtRatio]]

\* the set of the outcomes of the call. calculateTotalIncome and
\* calculateTotalExpenses are called without filters, calculateAverageDailySpending
\* without a collection
calculateFinancialHealthScore(stored, now, zone) ==
    With(getByMonth(stored, monthOf(now), zone), LAMBDA currentMonthTransactions :
      LET income == calculateTotalIncome(Given_(currentMonthTransactions), TRUE)
          expenses == calculateTotalExpenses(Given_(currentMonthTransactions), TRUE)
          incomeTrends == With(getMonthlyTrends(stored, 6, now, zone), LAMBDA monthlyTrends :
                               [n \in DOMAIN monthlyTrends |-> monthlyTrends[n].income])
          averageDaily == calculateAverageDailySpending(Null, 30, now)
      IN  IF income.threw \/ expenses.threw THEN {Thrown}
          ELSE UNION {
                 IF expenseRatios.threw \/ averageDaily.threw THEN {Thrown}
                 ELSE {Returned(healthRules(
                          income.value, expenses.value,
                          IF expenseRatios.value # <<>>
                               /\ expenseRatios.value[1].category \notin Inherited
                            THEN expenseRatios.value[1].percentage ELSE Ratio(0, 1),
                          calculateVariance(incomeTrends),
                          Ratio(averageDaily.value[1] * 30, averageDaily.value[2])))} :
                 expenseRatios \in calculateExpenseRatios(Given_(currentMonthTransactions))})

----------------------------------------------------------------------------
(* calculations.calculateLoanPayment *)

RECURSIVE Pow(_, _)
Pow(b, n) == IF n = 0 THEN 1 ELSE b * Pow(b, n - 1)

\* what typeof tells of a returned value
Number(q) == [typeof |-> "number", number |-> q]
Object(fields) == fields @@ [typeof |-> "object"]

\* principal after month of the schedule, as a numerator over the
\* denominator of payment: each month it grows by the interest and shrinks
\* by the payment
RECURSIVE principalAfter(_, _, _, _)
principalAfter(principal, monthlyRate, payment, month) ==
    IF month = 0 THEN principal
    ELSE principalAfter(principal, monthlyRate, payment, month - 1) * (1 + monthlyRate)
            - payment

\* annualRate is a multiple of 1200 here, so that monthlyRate is an integer;
\* years is a number of twelfths, so that payments is years. The quotients of
\* the schedule share the denominator of payment
calculateLoanPayment(principal, annualRate, years) ==
    LET monthlyRate == annualRate \div 1200
        payments == years
    IN  IF monthlyRate = 0 THEN Number(Ratio(principal, payments))
        ELSE With(<<Pow(1 + monthlyRate, payments) - 1,
                    principal * monthlyRate * Pow(1 + monthlyRate, payments)>>,
                  LAMBDA q :
             LET over == q[1]
                 payment == q[2]
                 before(month) ==
                     principalAfter(principal * over, monthlyRate, payment, month - 1)
             IN  Object([monthlyPayment |-> Ratio(payment, over),
                         totalPayment |-> Ratio(payment * payments, over),
                         totalInterest |->
                             Ratio(payment * payments - principal * over, over),
                         amortization |->
                             [i \in 1..payments |->
                                 With(before(i), LAMBDA owed :
                                   [month |-> i,
                                    payment |-> Ratio(payment, over),
                                    principal |-> Ratio(payment - owed * monthlyRate, over),
                                    interest |-> Ratio(owed * monthlyRate, over),
                                    remainingBalance |->
                                       Ratio(Max({owed * (1 + monthlyRate) - payment, 0}),
                                             over)])]]))

----------------------------------------------------------------------------
(* Calls of the queries *)

\* the call returns value; it makes no call of storage.set and none of
\* triggerDataChanged
Answer(op, input, value) ==
    /\ last' = [Result(op, 0) EXCEPT !.input = input, !.ok = TRUE, !.value = value,
                                     !.trace = <<"return">>]
    /\ UNCHANGED <<backups, listeners, today, nextId>>

\* the call of a calculation: it returns a value or throws
Outcome(op, input, r) ==
    /\ last' = [Result(op, 0) EXCEPT !.input = input, !.ok = ~r.threw,
                                     !.error = IF r.threw THEN "TypeError" ELSE "",
                                     !.value = r.value,
                                     !.trace = <<"return">>]
    /\ UNCHANGED <<backups, listeners, today, nextId>>

Filter(filters) ==
    Answer("filter", filters, filter(getAll(txs), filters)) /\ UNCHANGED txs

GetByDateRange(startDate, endDate) ==
    /\ Answer("getByDateRange", <<startDate, endDate>>,
              getByDateRange(txs, startDate, endDate))
    /\ UNCHANGED txs

Search(query, filters) ==
    Answer("search", <<query, filters>>, search(txs, query, filters)) /\ UNCHANGED txs

GetRecent(limit) ==
    LET r == getRecent(txs, limit)
    IN  Answer("getRecent", limit, r.value) /\ txs' = r.stored

GetStatistics(filters, zone) ==
    /\ Answer("getStatistics", <<filters, zone>>, getStatistics(txs, filters, zone))
    /\ UNCHANGED txs

GetCategoryTotals(type, filters) ==
    /\ \E value \in getCategoryTotals(txs, type, filters) :
          Answer("getCategoryTotals", <<type, filters>>, value)
    /\ UNCHANGED txs

CalculateCategoryTotals(type, arg) ==
    /\ \E r \in calculateCategoryTotals(type, arg) :
          Outcome("calculateCategoryTotals", <<type, arg>>, r)
    /\ UNCHANGED txs

GetMonthlyTrends(months, zone) ==
    /\ Answer("getMonthlyTrends", <<months, zone>>,
              getMonthlyTrends(txs, months, today, zone))
    /\ UNCHANGED txs

CalculateBalance(arg) ==
    Outcome("calculateBalance", arg, calculateBalance(arg)) /\ UNCHANGED txs

CalculateTotalIncome(arg, filtersTruthy) ==
    /\ Outcome("calculateTotalIncome", <<arg, filtersTruthy>>,
               calculateTotalIncome(arg, filtersTruthy))
    /\ UNCHANGED txs

CalculateTotalExpenses(arg, filtersTruthy) ==
    /\ Outcome("calculateTotalExpenses", <<arg, filtersTruthy>>,
               calculateTotalExpenses(arg, filtersTruthy))
    /\ UNCHANGED txs

CalculateNetIncome(arg, filtersTruthy) ==
    /\ Outcome("calculateNetIncome", <<arg, filtersTruthy>>,
               calculateNetIncome(arg, filtersTruthy))
    /\ UNCHANGED txs

CalculateExpenseRatios(arg) ==
    /\ \E r \in calculateExpenseRatios(arg) : Outcome("calculateExpenseRatios", arg, r)
    /\ UNCHANGED txs

CalculateFinancialHealthScore(zone) ==
    /\ \E r \in calculateFinancialHealthScore(txs, today, zone) :
          Outcome("calculateFinancialHealthScore", zone, r)
    /\ UNCHANGED txs

\* the rules of the score applied to given measures
HealthRules(income, expenses, top, variance, averageExpense) ==
    /\ Outcome("healthRules", <<income, expenses, top, variance, averageExpense>>,
               Returned(healthRules(income, expenses, top, variance, averageExpense)))
    /\ UNCHANGED txs

CalculateLoanPayment(principal, annualRate, years) ==
    /\ Outcome("calculateLoanPayment", <<principal, annualRate, years>>,
               Returned(calculateLoanPayment(principal, annualRate, years)))
    /\ UNCHANGED txs

----------------------------------------------------------------------------
(* transactions.subscribe and the unsubscribe function it returns *)

Subscribe(event, callback) ==
    /\ listeners' = listeners \cup {<<event, callback>>}
    /\ UNCHANGED <<txs, backups, today, nextId, last>>

\* an unsubscribe function that leaves the callback in the set
UnsubscribeKeeps(event, callback) ==
    /\ <<event, callback>> \in listeners
    /\ UNCHANGED <<txs, backups, listeners, today, nextId, last>>

Unsubscribe(event, callback) ==
    /\ <<event, callback>> \in listeners
    /\ listeners' = listeners \ {<<event, callback>>}
    /\ UNCHANGED <<txs, backups, today, nextId, last>>

\* time passes between calls
Tick ==
    /\ today < StartDay + MaxTicks
    /\ today' = today + 1
    /\ UNCHANGED <<txs, backups, listeners, nextId, last>>

----------------------------------------------------------------------------

(* The store with one subscriber of each event, every input *)

Init ==
    /\ txs = <<>>
    /\ backups = <<>>
    /\ listeners = {<<"dataChanged", "cb1">>, <<"other", "cb2">>}
    /\ today = StartDay
    /\ nextId = 0
    /\ last = Result("none", 0)
    /\ InitAside

Next ==
    \/ \E d \in AddInputs, free \in 0..MaxFree :
          Add(d, free) /\ UNCHANGED aside
    \/ \E id \in KnownIds, u \in Patches, free \in UpdateRoom :
          Update(id, u, free) /\ UNCHANGED aside
    \/ \E id \in KnownIds, free \in 0..MaxFree :
          Delete(id, free) /\ UNCHANGED aside
    \/ \E rows \in Batches, merge \in BOOLEAN, overwrite \in BOOLEAN, free \in 0..MaxFree :
          ImportTransactions(rows, merge, overwrite, free) /\ UNCHANGED aside

Spec == Init /\ [][Next]_vars

(* The store with subscribers that come and go, while time passes *)

InitNotify ==
    /\ txs = <<>>
    /\ backups = <<>>
    /\ listeners = {}
    /\ today = StartDay
    /\ nextId = 0
    /\ last = Result("none", 0)
    /\ InitAside

NotifyInputs == {BaseInput, [BaseInput EXCEPT !.id = 1], [BaseInput EXCEPT !.amount = 0]}

NotifyPatches == {[amount |-> 7], [amount |-> 0]}

NotifyBatches == UNION {[1..n -> {BaseRow, [BaseRow EXCEPT !.amount = 0]}] : n \in 0..MaxBatch}

NextNotify ==
    \/ \E d \in NotifyInputs, free \in 0..MaxFree :
          Add(d, free) /\ UNCHANGED aside
    \/ \E id \in TargetIds, u \in NotifyPatches, free \in UpdateRoom :
          Update(id, u, free) /\ UNCHANGED aside
    \/ \E id \in TargetIds, free \in 0..MaxFree :
          Delete(id, free) /\ UNCHANGED aside
    \/ \E rows \in NotifyBatches, merge \in BOOLEAN, overwrite \in BOOLEAN,
          free \in 0..MaxFree :
          ImportTransactions(rows, merge, overwrite, free) /\ UNCHANGED aside
    \/ \E sub \in Subscriptions :
          Subscribe(sub[1], sub[2]) /\ UNCHANGED aside
    \/ \E sub \in Subscriptions :
          Unsubscribe(sub[1], sub[2]) /\ UNCHANGED aside
    \/ Tick /\ UNCHANGED aside

SpecNotify == InitNotify /\ [][NextNotify]_vars

(* The store after long use: more than HistoryLimit records, six backups *)

InitAged ==
    /\ txs = SeedTransactions
    /\ backups = SeedBackups
    /\ listeners = {<<"dataChanged", "cb1">>}
    /\ today = StartDay
    /\ nextId = 0
    /\ last = Result("none", 0)
    /\ InitAside

AgedInputs == {BaseInput, [BaseInput EXCEPT !.amount = 0]}

AgedIds == {1, seedId(1), seedId(2)}

NextAged ==
    \/ \E d \in AgedInputs, free \in 0..MaxFree :
          Add(d, free) /\ UNCHANGED aside
    \/ \E id \in AgedIds, u \in NotifyPatches, free \in UpdateRoom :
          Update(id, u, free) /\ UNCHANGED aside
    \/ \E id \in AgedIds, free \in 0..MaxFree :
          Delete(id, free) /\ UNCHANGED aside
    \/ \E merge \in BOOLEAN, free \in 0..MaxFree :
          ImportTransactions(<<BaseRow>>, merge, FALSE, free) /\ UNCHANGED aside

SpecAged == InitAged /\ [][NextAged]_vars

(* The store fed by import files: rows that repeat one another by id or by *)
(* description, amount and date, among valid rows and invalid ones         *)

InitImport ==
    /\ txs = <<>>
    /\ backups = <<>>
    /\ listeners = {<<"dataChanged", "cb1">>}
    /\ today = StartDay
    /\ nextId = 0
    /\ last = Result("none", 0)
    /\ InitAside

MergeRowInputs == ImportRowInputs \cup {[BaseRow EXCEPT !.id = 1], [BaseRow EXCEPT !.id = 3]}

MergeBatches == UNION {[1..n -> MergeRowInputs] : n \in 0..MaxBatch}

NextImport ==
    \/ \E d \in NotifyInputs, free \in 0..MaxFree :
          Add(d, free) /\ UNCHANGED aside
    \/ \E id \in TargetIds, free \in 0..MaxFree :
          Delete(id, free) /\ UNCHANGED aside
    \/ \E rows \in MergeBatches, merge \in BOOLEAN, overwrite \in BOOLEAN,
          free \in 0..MaxFree :
          ImportTransactions(rows, merge, overwrite, free) /\ UNCHANGED aside

SpecImport == InitImport /\ [][NextImport]_vars

(* The store whose subscribers cancel their subscriptions *)

InitSubs ==
    /\ txs = <<>>
    /\ backups = <<>>
    /\ listeners = {}
    /\ today = StartDay
    /\ nextId = 0
    /\ last = Result("none", 0)
    /\ InitAside

\* the unsubscribe function of a subscription has been called
Cancelled(g, event, callback) == g \cup {<<event, callback, FALSE>>}

\* the callback has been subscribed to the event again
Renewed(g, event, callback) == {s \in g : <<s[1], s[2]>> # <<event, callback>>}

\* a call of the store has returned
SinceMutation(g, res) ==
    IF res.persisted THEN {<<s[1], s[2], TRUE>> : s \in g} ELSE g

SubsInputs == {[BaseInput EXCEPT !.id = 1], [BaseInput EXCEPT !.amount = 0]}

NextSubs ==
    \/ \E d \in SubsInputs, free \in 0..MaxFree :
          /\ Add(d, free)
          /\ gone' = SinceMutation(gone, last')
          /\ UNCHANGED <<exported, pending>>
    \/ \E id \in SuppliedIds, u \in NotifyPatches, free \in UpdateRoom :
          /\ Update(id, u, free)
          /\ gone' = SinceMutation(gone, last')
          /\ UNCHANGED <<exported, pending>>
    \/ \E id \in SuppliedIds, free \in 0..MaxFree :
          /\ Delete(id, free)
          /\ gone' = SinceMutation(gone, last')
          /\ UNCHANGED <<exported, pending>>
    \/ \E sub \in Subscriptions :
          /\ Subscribe(sub[1], sub[2])
          /\ gone' = Renewed(gone, sub[1], sub[2])
          /\ UNCHANGED <<exported, pending>>
    \/ \E sub \in Subscriptions :
          /\ Unsubscribe(sub[1], sub[2])
          /\ gone' = Cancelled(gone, sub[1], sub[2])
          /\ UNCHANGED <<exported, pending>>

SpecSubs == InitSubs /\ [][NextSubs]_vars

(* The store that is queried: records of both types, not in date order *)

InitQuery ==
    /\ txs = <<>>
    /\ backups = <<>>
    /\ listeners = {<<"dataChanged", "cb1">>}
    /\ today = StartDay
    /\ nextId = 0
    /\ last = Result("none", 0)
    /\ InitAside

QueryInputs ==
    { [BaseInput EXCEPT !.id = 1],
      [BaseInput EXCEPT !.id = 2, !.type = "income", !.category = "salary",
                        !.amount = 7, !.date = StartDay - 1,
                        !.notes = <<"J", "o", "b">>] }

QueryFilters ==
    { NoFilters, [type |-> "income"], [type |-> "all"], [categories |-> {"food"}],
      [paymentMethods |-> {"cash"}], [startDate |-> StartDay], [endDate |-> StartDay - 1],
      [minAmount |-> 6], [maxAmount |-> 6], [search |-> <<"J", "O">>] }

Queries == {<<>>, <<" ">>, <<"j", "o">>, <<"C", "a", "s">>, <<"f", "o", "o", "d">>}

Arguments == {Null, Given_(txs)}

NextQuery ==
    \/ \E d \in QueryInputs, free \in 0..MaxFree :
          Add(d, free) /\ UNCHANGED aside
    \/ \E filters \in QueryFilters :
          Filter(filters) /\ UNCHANGED aside
    \/ \E startDate \in {StartDay - 1, StartDay}, endDate \in {StartDay - 1, StartDay} :
          GetByDateRange(startDate, endDate) /\ UNCHANGED aside
    \/ \E query \in Queries, filters \in {NoFilters, [type |-> "income"]} :
          Search(query, filters) /\ UNCHANGED aside
    \/ \E limit \in 1..MaxTx :
          GetRecent(limit) /\ UNCHANGED aside
    \/ \E filters \in QueryFilters, zone \in Zones :
          GetStatistics(filters, zone) /\ UNCHANGED aside
    \/ \E type \in {"", "income", "expense"}, filters \in {NoFilters, [minAmount |-> 6]} :
          GetCategoryTotals(type, filters) /\ UNCHANGED aside
    \/ \E months \in 1..MaxTx, zone \in Zones :
          GetMonthlyTrends(months, zone) /\ UNCHANGED aside
    \/ \E arg \in Arguments :
          CalculateBalance(arg) /\ UNCHANGED aside
    \/ \E arg \in Arguments, filtersTruthy \in BOOLEAN :
          CalculateTotalIncome(arg, filtersTruthy) /\ UNCHANGED aside
    \/ \E arg \in Arguments, filtersTruthy \in BOOLEAN :
          CalculateTotalExpenses(arg, filtersTruthy) /\ UNCHANGED aside
    \/ \E arg \in Arguments, filtersTruthy \in BOOLEAN :
          CalculateNetIncome(arg, filtersTruthy) /\ UNCHANGED aside

SpecQuery == InitQuery /\ [][NextQuery]_vars

(* The collections that are rolled up: up to MaxRollup records that passed
   validation, of both types, in three categories, one of them a name every
   object inherits *)

RollupRecord(id, type, category, amount) ==
    [id |-> id, description |-> <<"a", "b">>, amount |-> amount, type |-> type,
     category |-> category, date |-> StartDay, paymentMethod |-> "cash",
     notes |-> <<>>, createdAt |-> StartDay, updatedAt |-> StartDay]

RollupCategories == {"food", "rent"} \cup Inherited

RollupCollections ==
    UNION {{[i \in 1..n |-> RollupRecord(i, c[i][1], c[i][2], c[i][3])] :
              c \in [1..n -> {"expense", "income"} \X RollupCategories \X {5, 7}]} :
           n \in 0..MaxRollup}

InitRollup ==
    /\ txs \in RollupCollections
    /\ backups = <<>>
    /\ listeners = {<<"dataChanged", "cb1">>}
    /\ today = StartDay
    /\ nextId = 0
    /\ last = Result("none", 0)
    /\ InitAside

NextRollup ==
    \/ \E type \in {"", "expense"} :
          GetCategoryTotals(type, NoFilters) /\ UNCHANGED aside
    \/ \E type \in {"", "expense"}, arg \in Arguments :
          CalculateCategoryTotals(type, arg) /\ UNCHANGED aside
    \/ \E arg \in Arguments :
          CalculateExpenseRatios(arg) /\ UNCHANGED aside
    \/ \E zone \in Zones : CalculateFinancialHealthScore(zone) /\ UNCHANGED aside

SpecRollup == InitRollup /\ [][NextRollup]_vars

(* The rules of the health score, applied to measures drawn from both sides
   of every threshold *)

ScoreIncomes == {0, 10, 100}
ScoreExpenses == {0, 79, 80, 90, 95, 96, 200}
ScorePercentages == {Ratio(0, 1), Ratio(30, 1), Ratio(50, 1), Ratio(100, 1)}
ScoreVariances == {Ratio(0, 1), Ratio(1, 10), Ratio(3, 10), Ratio(25, 36)}
ScoreAverages == {Ratio(0, 30), Ratio(30 * 30, 30), Ratio(50 * 30, 30), Ratio(51 * 30, 30)}

InitScore ==
    /\ txs = <<>>
    /\ backups = <<>>
    /\ listeners = {}
    /\ today = StartDay
    /\ nextId = 0
    /\ last = Result("none", 0)
    /\ InitAside

NextScore ==
    \E income \in ScoreIncomes, expenses \in ScoreExpenses, top \in ScorePercentages,
       variance \in ScoreVariances, averageExpense \in ScoreAverages :
          HealthRules(income, expenses, top, variance, averageExpense) /\ UNCHANGED aside

SpecScore == InitScore /\ [][NextScore]_vars

(* The loans whose payment is calculated *)

LoanPrincipals == {50, 100, 150, 200, 300, 400, 600, 800, 1000, 1200, 1201}
LoanRates == {0, 1200}
LoanTwelfths == {1, 2, 3, 6, 12}

NextLoan ==
    \E principal \in LoanPrincipals, annualRate \in LoanRates, years \in LoanTwelfths :
       CalculateLoanPayment(principal, annualRate, years) /\ UNCHANGED aside

SpecLoan == InitScore /\ [][NextLoan]_vars

(* The stores that are filtered, and the criteria: each criterion left out,
   supplied, or supplied empty, in every combination *)

FilterRecords ==
    { [RollupRecord(1, "expense", "food", 5) EXCEPT !.notes = <<"J", "o", "b">>],
      [RollupRecord(2, "income", "salary", 4) EXCEPT !.date = StartDay - 1,
                                                     !.description = <<"J", "o", "b">>],
      [RollupRecord(3, "expense", "rent", 6) EXCEPT !.date = StartDay + 1,
                                                    !.paymentMethod = "credit"] }

FilterCollections == UNION {[1..n -> FilterRecords] : n \in 0..MaxFiltered}

FilterCriteria ==
    { type @@ categories @@ paymentMethods @@ startDate @@ endDate @@ minAmount
           @@ maxAmount @@ term :
        type \in {NoFilters, [type |-> "expense"], [type |-> "all"]},
        categories \in {NoFilters, [categories |-> {"food", "salary"}], [categories |-> {}]},
        paymentMethods \in {NoFilters, [paymentMethods |-> {"cash"}]},
        startDate \in {NoFilters, [startDate |-> StartDay]},
        endDate \in {NoFilters, [endDate |-> StartDay]},
        minAmount \in {NoFilters, [minAmount |-> 5]},
        maxAmount \in {NoFilters, [maxAmount |-> 5]},
        term \in {NoFilters, [search |-> <<"J", "O">>]} }

InitFilter ==
    /\ txs \in FilterCollections
    /\ backups = <<>>
    /\ listeners = {<<"dataChanged", "cb1">>}
    /\ today = StartDay
    /\ nextId = 0
    /\ last = Result("none", 0)
    /\ InitAside

NextFilter == \E filters \in FilterCriteria : Filter(filters) /\ UNCHANGED aside

SpecFilter == InitFilter /\ [][NextFilter]_vars

(* The stores whose monthly trends are taken: records on the first and the
   last day of the current month, in its middle, and in the month before; the
   clock stands at the last day of the month *)

TrendRecords ==
    { [RollupRecord(1, "expense", "food", 5) EXCEPT !.date = firstDay(monthOf(StartDay))],
      [RollupRecord(2, "income", "salary", 7)
          EXCEPT !.date = lastDay(monthOf(StartDay))],
      [RollupRecord(3, "income", "salary", 4)
          EXCEPT !.date = firstDay(monthOf(StartDay)) + 1],
      [RollupRecord(4, "expense", "rent", 6)
          EXCEPT !.date = lastDay(monthOf(StartDay) - 1)] }

TrendCollections == UNION {[1..n -> TrendRecords] : n \in 0..MaxFiltered}

InitTrends ==
    /\ txs \in TrendCollections
    /\ backups = <<>>
    /\ listeners = {<<"dataChanged", "cb1">>}
    /\ today = lastDay(monthOf(StartDay))
    /\ nextId = 0
    /\ last = Result("none", 0)
    /\ InitAside

NextTrends ==
    \E months \in 0..MaxMonths, zone \in Zones :
       GetMonthlyTrends(months, zone) /\ UNCHANGED aside

SpecTrends == InitTrends /\ [][NextTrends]_vars

(* The stores storage.set writes to: few or more than HistoryLimit records,
   no or six backups; the room left is short, or so short that every write
   raises *)

InitQuota ==
    /\ txs \in {<<>>, SeedTransactions}
    /\ backups \in {<<>>, SeedBackups}
    /\ listeners = {<<"dataChanged", "cb1">>}
    /\ today = StartDay
    /\ nextId = 0
    /\ last = Result("none", 0)
    /\ InitAside

QuotaRecords ==
    {RollupRecord(1, "expense", "food", 5), RollupRecord(2, "income", "salary", 7)}

\* the room left at a write: none for any write, short by one entry, or
\* enough
QuotaRoom == {NoRoom, 0 - 1, 0, 1}

\* a record is appended to a short list, the long list is written again as
\* it is; a backup is appended to the empty list and to the list of six
NextQuota ==
    \/ \E t \in QuotaRecords, free \in QuotaRoom, caught \in BOOLEAN :
          /\ Len(txs) < MaxTx
          /\ StorageSet("txs", Append(txs, t), free, caught)
          /\ UNCHANGED aside
    \/ \E free \in QuotaRoom, caught \in BOOLEAN :
          /\ txs = SeedTransactions
          /\ StorageSet("txs", txs, free, caught)
          /\ UNCHANGED aside
    \/ \E free \in QuotaRoom, caught \in BOOLEAN :
          /\ backups \in {<<>>, SeedBackups}
          /\ StorageSet("backups", Append(backups, [date |-> Min(Stamps(backups))]),
                        free, caught)
          /\ UNCHANGED aside

SpecQuota == InitQuota /\ [][NextQuota]_vars

(* The store of which backups are taken and into which backups are
   restored *)

RestoreData ==
    { NoData, DataOf([version |-> "1.0.0"]),
      DataOf([transactions |-> <<>>]), DataOf([categories |-> <<"rent">>]),
      DataOf([transactions |-> <<>>, categories |-> <<>>]),
      DataOf([transactions |-> <<RollupRecord(1, "expense", "food", 5)>>,
              categories |-> <<"rent">>]),
      DataOf([transactions |-> <<RollupRecord(1, "expense", "food", 5),
                                 RollupRecord(2, "income", "salary", 7)>>,
              categories |-> StoredCategories]) }

NextRestore ==
    \/ \E now \in Stamps(backups), free \in BackupRoom, stampFits \in BOOLEAN :
          /\ Len(backups) < MaxTx
          /\ Backup(now, free, stampFits)
          /\ UNCHANGED aside
    \/ \E backupData \in RestoreData, free \in BackupRoom, categoriesFit \in BOOLEAN :
          Restore(backupData, free, categoriesFit) /\ UNCHANGED aside

InitRestore ==
    /\ txs = <<>>
    /\ backups = <<>>
    /\ listeners = {<<"dataChanged", "cb1">>}
    /\ today = StartDay
    /\ nextId = 0
    /\ last = Result("none", 0)
    /\ InitAside

SpecRestore == InitRestore /\ [][NextRestore]_vars

(* The store two actors add to and delete from, their calls interleaved *)

InitActors ==
    /\ txs = <<>>
    /\ backups = <<>>
    /\ listeners = {<<"dataChanged", "cb1">>}
    /\ today = StartDay
    /\ nextId = 0
    /\ last = Result("none", 0)
    /\ InitAside

ActorInputs == {[BaseInput EXCEPT !.id = 1], [BaseInput EXCEPT !.id = 2, !.amount = 7]}

ActorIds == {1, 2}

NextActors ==
    \/ \E actor \in Actors, d \in ActorInputs : ReadAdd(actor, d)
    \/ \E actor \in Actors, id \in ActorIds : ReadDelete(actor, id)
    \/ \E actor \in Actors, free \in 0..MaxFree : Write(actor, free)

SpecActors == InitActors /\ [][NextActors]_vars

(* The store of which backups are taken, one after another *)

InitBackup ==
    /\ txs = <<>>
    /\ backups = <<>>
    /\ listeners = {<<"dataChanged", "cb1">>}
    /\ today = StartDay
    /\ nextId = 0
    /\ last = Result("none", 0)
    /\ InitAside

NextBackup ==
    \E now \in Stamps(backups), free \in BackupRoom, stampFits \in BOOLEAN :
        Backup(now, free, stampFits) /\ UNCHANGED aside

SpecBackup == InitBackup /\ [][NextBackup]_vars

(* The store whose collection is exported, cleared and imported again *)

InitPorting ==
    /\ txs = <<>>
    /\ backups = <<>>
    /\ listeners = {<<"dataChanged", "cb1">>}
    /\ today = StartDay
    /\ nextId = 0
    /\ last = Result("none", 0)
    /\ InitAside

ExportFilters == {NoFilters, [type |-> "income"]}

NextPorting ==
    \/ \E d \in NotifyInputs, free \in 0..MaxFree :
          Add(d, free) /\ UNCHANGED aside
    \/ Tick /\ UNCHANGED aside
    \/ \E filters \in ExportFilters :
          ExportTransactions(filters) /\ UNCHANGED <<pending, gone>>
    \/ ExportToFile /\ UNCHANGED <<pending, gone>>
    \/ ClearAll /\ UNCHANGED <<pending, gone>>
    \/ \E merge \in BOOLEAN, overwrite \in BOOLEAN, free \in 0..MaxFree :
          ImportExported(merge, overwrite, free) /\ UNCHANGED <<pending, gone>>
    \/ \E free \in 0..MaxFree :
          ImportFromFile(free) /\ UNCHANGED <<pending, gone>>

SpecPorting == InitPorting /\ [][NextPorting]_vars

----------------------------------------------------------------------------
(* Vocabulary of the properties *)

StoreOps == {"add", "update", "delete", "import"}

\* the step is one call of op: a call changes neither the subscriptions nor
\* the clock, and every other step changes one of them
CallStep(op) == last'.op = op /\ UNCHANGED <<listeners, today>>

Ids(s) == {s[i].id : i \in DOMAIN s}

\* the records of a collection with their multiplicities
BagOf(s) == [r \in {s[i] : i \in DOMAIN s} |-> Cardinality({i \in DOMAIN s : s[i] = r})]

Notified(res) == \E c \in Callbacks : res.notified[c] > 0

\* position of a step in the trace of a call, 0 when the call did not take it
Position(trace, step) ==
    IF \E i \in DOMAIN trace : trace[i] = step
      THEN CHOOSE i \in DOMAIN trace : trace[i] = step ELSE 0

\* the fields other than the description that break a constraint of the data
\* model
FieldViolations(data, now) ==
    {f \in {"amount", "type", "category", "date", "paymentMethod", "notes"} :
        \/ f = "amount" /\ ~(data.amount > 0 /\ data.amount <= MaxAmount)
        \/ f = "type" /\ data.type \notin Types
        \/ f = "category" /\ data.category \in BlankCategories
        \/ f = "date" /\ ~(data.date > 0 /\ data.date <= now /\ data.date >= now - TenYears)
        \/ f = "paymentMethod" /\ data.paymentMethod \notin validMethods \cup {""}
        \/ f = "notes" /\ Len(data.notes) > MaxNotes}

\* the fields of a record that break a constraint of the data model, the
\* description being measured after sanitization
ConstraintViolations(data, now) ==
    FieldViolations(data, now)
      \cup (IF Len(sanitizeInput(data.description)) \in MinDescription..MaxDescription
              THEN {} ELSE {"description"})

\* the same with the description measured as it was given
InputViolations(data, now) ==
    FieldViolations(data, now)
      \cup (IF /\ Len(data.description) \in MinDescription..MaxDescription
               /\ \E i \in DOMAIN data.description : data.description[i] \notin Whitespace
              THEN {} ELSE {"description"})

----------------------------------------------------------------------------
C2_UniqueIds ==
    \A i, j \in DOMAIN txs : i # j => txs[i].id # txs[j].id

C4_NotifiedIffPersisted ==
    last.op \in StoreOps
      => \A c \in Callbacks :
            last.notified[c] = IF last.persisted /\ c \in last.subscribed THEN 1 ELSE 0

C4_Witness ==
    /\ last.op = "import" /\ last.persisted
    /\ last.subscribed = Callbacks
    /\ \A c \in Callbacks : last.notified[c] = 1

(* C5: when callbacks run, the write has been persisted and the call has not *)
(* returned, and transactions.getAll() inside the callback returns the       *)
(* committed collection with the mutation in it.                             *)
C5_PersistNotifyReturn ==
    Notified(last)
      => /\ 0 < Position(last.trace, "set")
         /\ Position(last.trace, "set") < Position(last.trace, "trigger")
         /\ Position(last.trace, "trigger") < Position(last.trace, "return")
         /\ last.seen = txs
         /\ last.op \in {"add", "update"}
              => \E i \in DOMAIN last.seen : last.seen[i] = last.transaction
         /\ last.op = "delete" => last.id \notin Ids(last.seen)

C5_Witness ==
    /\ Notified(last) /\ last.op = "delete"
    /\ txs # <<>>

C7_FailsOnlyIfRetryFails ==
    (last.wrote /\ ~last.persisted)
      => (last.cleanups = 1 /\ ~last.retryFits)

(* C8: update and delete with an id that no stored record has return the     *)
(* failure 'Transaction not found', leave the collection as it was and call  *)
(* no callback.                                                              *)
C8_MissingIdFails ==
    [][ (CallStep("update") \/ CallStep("delete")) /\ last'.id \notin Ids(txs)
          => /\ ~last'.ok
             /\ last'.error = "Transaction not found"
             /\ txs' = txs
             /\ ~Notified(last') ]_vars

C8_Witness ==
    /\ last.op = "delete" /\ last.id = 3
    /\ last.error = "Transaction not found"
    /\ txs # <<>>
    /\ \E c \in Callbacks : <<"dataChanged", c>> \in listeners

C10_InvalidMergeLeavesRecord ==
    [][ CallStep("update") /\ last'.id \in Ids(txs)
          => \E old \in {txs[findIndex(txs, last'.id)]} :
             \E overlaid \in {[f \in DOMAIN old |->
                                 IF f \in DOMAIN last'.input THEN last'.input[f] ELSE old[f]]} :
             \E broken \in {InputViolations(overlaid, today)} :
                 /\ broken = {} => last'.wrote
                 /\ broken # {}
                      => /\ ~last'.ok /\ ~last'.wrote
                         /\ {e[1] : e \in last'.errors} = broken
                         /\ txs' = txs
                         /\ ~Notified(last') ]_vars

C10_Witness ==
    /\ last.op = "update" /\ ~last.ok
    /\ last.input = [amount |-> 7]
    /\ last.errors = {<<"description", "Description must be at least 2 characters">>}
    /\ last.id \in Ids(txs)

----------------------------------------------------------------------------
(* What becomes of the rows of a batch *)

\* a stored record and a row are the same by id, or by description, amount
\* and date; a row without an id gets a new one, which no record has
SameRecord(t, row) ==
    \/ row.id # 0 /\ t.id = row.id
    \/ t.description = row.description /\ t.amount = row.amount /\ t.date = row.date

\* the fate of each row, in order: "skipped", "error" or "imported"; present
\* holds the records kept from before and the rows imported so far
RECURSIVE RowFates(_, _, _, _, _)
RowFates(rows, k, present, merge, now) ==
    IF k > Len(rows) THEN <<>>
    ELSE LET row == rows[k]
             fate == IF merge /\ \E t \in present : SameRecord(t, row) THEN "skipped"
                     ELSE IF InputViolations(row, now) # {} THEN "error"
                     ELSE "imported"
         IN  <<fate>> \o RowFates(rows, k + 1,
                                  IF fate = "imported" THEN present \cup {row} ELSE present,
                                  merge, now)

Count(fates, fate) == Cardinality({k \in DOMAIN fates : fates[k] = fate})

KeptBefore(res, s) == IF res.overwrite THEN <<>> ELSE s

(* C13: importTransactions in merge mode adds no record that has the id, or  *)
(* the description, amount and date, of a record that is in the collection   *)
(* at its turn, rows of the same batch included, and counts each such row    *)
(* as skipped.                                                               *)
C13_MergeSkipsDuplicates ==
    [][ CallStep("import") /\ last'.merge
          => \E kept \in {KeptBefore(last', txs)} :
             \E fates \in {RowFates(last'.input, 1, {kept[i] : i \in DOMAIN kept},
                                    TRUE, today)} :
                 /\ last'.skipped = Count(fates, "skipped")
                 /\ last'.persisted
                      => /\ SubSeq(txs', 1, Len(kept)) = kept
                         /\ \A j \in (Len(kept) + 1)..Len(txs') : \A i \in 1..(j - 1) :
                               /\ txs'[i].id # txs'[j].id
                               /\ ~ /\ txs'[i].description = txs'[j].description
                                    /\ txs'[i].amount = txs'[j].amount
                                    /\ txs'[i].date = txs'[j].date ]_vars

C13_Witness ==
    /\ last.op = "import" /\ last.merge /\ last.persisted
    /\ Len(last.input) = 2 /\ last.input[1].id # last.input[2].id
    /\ last.imported = 1 /\ last.skipped = 1
    /\ Len(txs) = 1

(* C14: importTransactions goes through every row: each row is imported,     *)
(* skipped or reported with one error entry, whatever came of the rows       *)
(* before it, and totalCount is the number of records kept from before plus  *)
(* importedCount.                                                            *)
C14_EveryRowAccounted ==
    [][ CallStep("import")
          => \E kept \in {KeptBefore(last', txs)} :
             \E fates \in {RowFates(last'.input, 1, {kept[i] : i \in DOMAIN kept},
                                    last'.merge, today)} :
                 /\ last'.imported = Count(fates, "imported")
                 /\ Len(last'.rowErrors) = Count(fates, "error")
                 /\ \A e \in DOMAIN last'.rowErrors : fates[last'.rowErrors[e][1]] = "error"
                 /\ last'.imported + last'.skipped + Len(last'.rowErrors) = Len(last'.input)
                 /\ last'.total = Len(kept) + last'.imported ]_vars

C14_Witness ==
    /\ last.op = "import" /\ last.persisted
    /\ Len(last.input) = 2 /\ last.input[1].amount = 0
    /\ Len(last.rowErrors) = 1 /\ last.imported = 1
    /\ \E i \in DOMAIN txs : txs[i].amount = last.input[2].amount

(* C12: importing the JSON text exportTransactions returned into an empty    *)
(* store persists the records that were exported: the same records, each     *)
(* with the same value in every field, none dropped and none added.          *)
C12_RoundTripRestores ==
    [][ ( /\ CallStep("import")
          /\ exported.kind = "array"
          /\ last'.input = JSONparse(exported.text)
          /\ txs = <<>>
          /\ last'.persisted )
        => BagOf(txs') = BagOf(last'.input) ]_vars

----------------------------------------------------------------------------
(* The backups a list holds *)

Dates(list) == {list[i].date : i \in DOMAIN list}

\* the n latest of a set of dates
Latest(ds, n) == {d \in ds : Cardinality({e \in ds : e > d}) < n}

(* C15: a storage.backup() call leaves at most 10 backups in the persisted   *)
(* list; when the list held 10 already, the backups it leaves are the latest *)
(* 10 of those the list held and the one just taken, so the backup dropped   *)
(* is the oldest and the list is the 10 most recent backups taken.           *)
C15_TenMostRecentBackups ==
    [][ last'.op = "backup" /\ last'.ok
          => /\ Len(backups') <= BackupsKept
             /\ Len(backups) = BackupsKept
                  => Dates(backups') =
                       Latest(Dates(backups) \cup {last'.input.date}, BackupsKept) ]_vars

\* what holds of every backup call: the list never exceeds 10, and what left
\* the list is older than everything that stayed
BackupsBoundedOldestFirst ==
    [][ last'.op = "backup"
          => /\ Len(backups') <= BackupsKept
             /\ \A d \in (Dates(backups) \cup {last'.input.date}) \ Dates(backups') :
                   \/ d = last'.input.date
                   \/ \A e \in Dates(backups') : d < e ]_vars

C17_LastWriteWins ==
    [][ \A actor \in Actors :
          pending[actor].phase = "read" /\ pending'[actor].phase = "done"
            /\ last'.persisted
          => \E read \in {pending[actor].allTransactions} :
                /\ last'.ok
                /\ last'.op = "add" => txs' = Append(read, last'.transaction)
                /\ last'.op = "delete"
                     => txs' = SelectSeq(read, LAMBDA t : t.id # last'.id) ]_vars

\* both actors read the same collection, the first wrote its record, the
\* second wrote over it, both were told of success, and the record of the
\* first is not in the collection
C17_Witness ==
    \E first \in Actors : \E second \in Actors \ {first} :
        /\ pending[first].phase = "done" /\ pending[second].phase = "done"
        /\ pending[first].ok /\ pending[second].ok
        /\ pending[first].allTransactions = pending[second].allTransactions
        /\ pending[first].op = "add"
        /\ pending[second].overwrote = pending[first].value
        /\ txs = pending[second].value
        /\ pending[first].id \notin Ids(txs)

----------------------------------------------------------------------------
(* The calls that only read *)

QueryOps ==
    {"filter", "getByDateRange", "search", "getRecent", "getStatistics",
     "getCategoryTotals", "getMonthlyTrends", "calculateBalance",
     "calculateTotalIncome", "calculateTotalExpenses", "calculateNetIncome"}

C19_CancelledNotCalled ==
    [][ (\E op \in StoreOps : CallStep(op)) /\ last'.persisted
          => \A c \in Callbacks :
                \E cancelled \in {\E s \in gone : s[1] = "dataChanged" /\ s[2] = c} :
                   /\ cancelled => last'.notified[c] = 0
                   /\ ~cancelled /\ <<"dataChanged", c>> \in listeners
                        => last'.notified[c] = 1 ]_vars

\* cb1 cancelled its subscription, a mutation was persisted after that, and
\* the mutation called cb2 and not cb1
C19_Witness ==
    /\ <<"dataChanged", "cb1", TRUE>> \in gone
    /\ last.op \in StoreOps /\ last.persisted
    /\ last.notified["cb1"] = 0
    /\ last.notified["cb2"] = 1

(* C20: for a collection passed as the argument, calculateBalance returns    *)
(* what calculateTotalIncome returns less what calculateTotalExpenses        *)
(* returns, both called with the collection and no filter argument.          *)
C20_BalanceIsIncomeLessExpenses ==
    last.op = "calculateBalance" /\ ~last.input.null
      => \E income \in {calculateTotalIncome(last.input, TRUE)} :
         \E expenses \in {calculateTotalExpenses(last.input, TRUE)} :
            /\ ~income.threw /\ ~expenses.threw
            /\ last.value = income.value - expenses.value

\* the same with null passed for the filters
BalanceIsIncomeLessExpensesUnfiltered ==
    last.op = "calculateBalance" /\ ~last.input.null
      => \E income \in {calculateTotalIncome(last.input, FALSE)} :
         \E expenses \in {calculateTotalExpenses(last.input, FALSE)} :
            /\ ~income.threw /\ ~expenses.threw
            /\ last.value = income.value - expenses.value

\* the sum of the amounts of the records of type expense
TotalExpense(s) == SumAmounts(SelectSeq(s, LAMBDA t : t.type = "expense"))

RECURSIVE SumTotals(_)
SumTotals(entries) ==
    IF entries = <<>> THEN 0 ELSE entries[1].total + SumTotals(Tail(entries))

\* every expense category once, the totals adding up to the total expense,
\* the largest total first
RollsUp(entries, s) ==
    /\ \A i, j \in DOMAIN entries : entries[i].category = entries[j].category => i = j
    /\ {entries[i].category : i \in DOMAIN entries}
          = {s[i].category : i \in {k \in DOMAIN s : s[k].type = "expense"}}
    /\ \A i \in DOMAIN entries : entries[i].category \notin Inherited
    /\ SumTotals(entries) = TotalExpense(s)
    /\ \A i, j \in DOMAIN entries : i < j => entries[i].total >= entries[j].total

ExpenseRollup ==
    \/ last.op = "getCategoryTotals" /\ last.input = <<"expense", NoFilters>>
    \/ last.op = "calculateCategoryTotals" /\ last.input = <<"expense", Given_(txs)>>

\* C21: for every collection of transactions, the rollup restricted to type
\* expense (transactions.getCategoryTotals('expense') over the store,
\* calculations.calculateCategoryTotals('expense', collection)) has every
\* expense category exactly once, its totals add up to the total expense of
\* the collection, and its entries are in non-increasing order of total
C21_RollupAddsUp ==
    ExpenseRollup => last.ok /\ RollsUp(last.value, txs)

\* the same for the collections none of whose categories is a name inherited
\* from Object.prototype
RollupAddsUpOwnNames ==
    (ExpenseRollup /\ \A i \in DOMAIN txs : txs[i].category \notin Inherited)
       => last.ok /\ RollsUp(last.value, txs)

\* a rollup of two expense categories, one of them with two records
RollupOwnNamesReached ==
    /\ ExpenseRollup
    /\ \A i \in DOMAIN txs : txs[i].category \notin Inherited
    /\ Len(last.value) = 2
    /\ Len(SelectSeq(txs, LAMBDA t : t.type = "expense")) = 3

\* the band of a score
Band(score) ==
    IF score >= 90 THEN "A+" ELSE IF score >= 80 THEN "A" ELSE IF score >= 70 THEN "B"
    ELSE IF score >= 60 THEN "C" ELSE IF score >= 50 THEN "D" ELSE "F"

\* C22: for every store state, the empty store and a month without income
\* included, calculateFinancialHealthScore returns a score from 0 to 100 and
\* the grade that is the band of that score
C22_ScoreWithinBoundsAndGraded ==
    last.op = "calculateFinancialHealthScore"
       => /\ last.ok
          /\ last.value.score \in 0..100
          /\ last.value.grade = Band(last.value.score)

\* the four rules, the cap and the grade give a score from 0 to 100 with the
\* grade of its band, whatever the measures
RulesScoreWithinBoundsAndGraded ==
    last.op = "healthRules"
       => /\ last.value.score \in 0..100
          /\ last.value.grade = Band(last.value.score)

\* the rules applied to a month without income, every rule subtracting
RulesZeroIncomeReached ==
    /\ last.op = "healthRules"
    /\ last.input[1] = 0
    /\ last.value.score = 40
    /\ last.value.grade = "F"

\* a schedule of payments entries, the payment of each the same part of the
\* principal, and the balance 0 after the last
Schedule(result, principal, payments) ==
    /\ result.typeof = "object"
    /\ Len(result.amortization) = payments
    /\ LessEq(result.monthlyPayment, Ratio(principal, payments))
    /\ LessEq(Ratio(principal, payments), result.monthlyPayment)
    /\ \A i \in 1..payments :
          /\ result.amortization[i].payment = result.monthlyPayment
          /\ result.amortization[i].interest[1] = 0
    /\ result.amortization[payments].remainingBalance[1] = 0

\* C23: for an annual rate of 0 calculateLoanPayment returns what it returns
\* for a positive rate, an object with a schedule of years * 12 entries, every
\* payment principal / (years * 12), no interest, and the balance 0 at the
\* last entry
C23_ZeroRateSchedule ==
    (last.op = "calculateLoanPayment" /\ last.input[2] = 0)
       => Schedule(last.value, last.input[1], last.input[3])

\* for a positive rate the result is an object with a schedule of years * 12
\* entries whose balance is 0 at the last entry
PositiveRateSchedule ==
    (last.op = "calculateLoanPayment" /\ last.input[2] > 0)
       => /\ last.value.typeof = "object"
          /\ Len(last.value.amortization) = last.input[3]
          /\ last.value.amortization[last.input[3]].remainingBalance[1] = 0

\* for the rate 0 the result is the number principal / (years * 12)
ZeroRateNumber ==
    (last.op = "calculateLoanPayment" /\ last.input[2] = 0)
       => last.value = Number(Ratio(last.input[1], last.input[3]))

\* a criterion is supplied when filters has it and it is not empty; the type
\* 'all' stands for no criterion on the type
Supplied(filters, c) ==
    /\ c \in DOMAIN filters
    /\ c = "type" => filters[c] \notin {"", "all"}
    /\ c \in {"categories", "paymentMethods"} => filters[c] # {}
    /\ c \in {"startDate", "endDate"} => filters[c] # 0
    /\ c = "search" => filters[c] # <<>>

Satisfies(t, filters) ==
    /\ Supplied(filters, "type") => t.type = filters.type
    /\ Supplied(filters, "categories") => t.category \in filters.categories
    /\ Supplied(filters, "paymentMethods") => t.paymentMethod \in filters.paymentMethods
    /\ Supplied(filters, "startDate") => t.date >= filters.startDate
    /\ Supplied(filters, "endDate") => t.date <= filters.endDate
    /\ Supplied(filters, "minAmount") => t.amount >= filters.minAmount
    /\ Supplied(filters, "maxAmount") => t.amount <= filters.maxAmount
    /\ Supplied(filters, "search") =>
          \/ includes(toLowerCase(t.description), toLowerCase(filters.search))
          \/ includes(toLowerCase(t.notes), toLowerCase(filters.search))

DatedIn(s, month) == SelectSeq(s, LAMBDA t : monthOf(t.date) = month)

\* the entry of a month counts the records dated in it and nothing else
EntryOf(entry, s) ==
    \E of \in {DatedIn(s, entry.month)} :
       /\ entry.transactionCount = Len(of)
       /\ entry.income = SumAmounts(SelectSeq(of, LAMBDA t : t.type = "income"))
       /\ entry.expense = SumAmounts(SelectSeq(of, LAMBDA t : t.type # "income"))
       /\ entry.total = entry.income - entry.expense

TrendsOfMonths(value, months, s, now) ==
    /\ Len(value) = months
    /\ \A n \in 1..months :
          /\ value[n].month = monthOf(now) - (months - n)
          /\ EntryOf(value[n], s)

\* C25: getMonthlyTrends(n) returns n entries, one for each of the n
\* consecutive months that end with the current month, the oldest first; a
\* month without transactions has income, expense, total and count 0, and
\* every stored transaction dated in one of the months is counted in the
\* entry of that month and in no other
C25_TrendsCountEveryMonth ==
    last.op = "getMonthlyTrends"
       => TrendsOfMonths(last.value, last.input[1], txs, today)

\* the same where the zone of the machine is UTC
TrendsCountEveryMonthUTC ==
    (last.op = "getMonthlyTrends" /\ last.input[2] = 0)
       => TrendsOfMonths(last.value, last.input[1], txs, today)

\* trends over three months in UTC, with a record on the first and one on
\* the last day of the current month
TrendsUTCReached ==
    /\ last.op = "getMonthlyTrends" /\ last.input = <<MaxMonths, 0>>
    /\ last.value[MaxMonths].transactionCount = 2
    /\ {txs[i].date : i \in DOMAIN txs}
          = {firstDay(monthOf(today)), lastDay(monthOf(today))}

RECURSIVE SumField(_, _)
SumField(entries, field) ==
    IF entries = <<>> THEN 0 ELSE entries[1][field] + SumField(Tail(entries), field)

\* no entry when nothing was spent; else one entry per expense category, the
\* amounts adding up to the total expense and the percentages to 100
RatiosOf(ratios, s) ==
    IF TotalExpense(s) = 0 THEN ratios = <<>>
    ELSE /\ \A i, j \in DOMAIN ratios : ratios[i].category = ratios[j].category => i = j
         /\ {ratios[i].category : i \in DOMAIN ratios}
               = {s[i].category : i \in {k \in DOMAIN s : s[k].type = "expense"}}
         /\ SumField(ratios, "amount") = TotalExpense(s)
         /\ \A i \in DOMAIN ratios : ratios[i].percentage[2] = TotalExpense(s)
         /\ SumField([i \in DOMAIN ratios |-> [n |-> ratios[i].percentage[1]]], "n")
               = 100 * TotalExpense(s)

\* C26: calculateExpenseRatios returns the empty sequence when the total
\* expense of the collection is 0, and else one entry per expense category,
\* the amounts adding up to the total expense and the percentages to 100; it
\* never divides by zero
C26_RatiosAddUp ==
    (last.op = "calculateExpenseRatios" /\ last.input = Given_(txs))
       => last.ok /\ RatiosOf(last.value, txs)

\* what calculateExpenseRatios does once the total expense is known, for the
\* collections none of whose categories is a name inherited from
\* Object.prototype
RatiosAddUpGivenTotal ==
    (\A i \in DOMAIN txs : txs[i].category \notin Inherited)
       => \A ratios \in expenseRatiosOf(txs, TotalExpense(txs)) : RatiosOf(ratios, txs)

\* every write of the call raised the quota error
EveryWriteRaised == last.input[2] = NoRoom

\* C27: storage.set ends and returns a boolean even when every write raises
\* the quota error while more than 5 backups or more than 1000 transactions
\* are stored: the writes of the remediation start no chain of remediations
\* that only the call stack ends
C27_SetEndsByItself ==
    last.op = "set" => last.error # "RangeError" /\ last.cleanups < StackLimit

\* the same where a write raises only for want of room: the writes of the
\* remediation make the stored value smaller and fit
SetEndsWhenPruningFits ==
    (last.op = "set" /\ ~EveryWriteRaised)
       => last.error # "RangeError" /\ last.cleanups <= 1

\* where every write raises and nothing is there to prune, set returns false
\* after one remediation
SetEndsWithNothingToPrune ==
    (last.op = "set" /\ EveryWriteRaised
        /\ Len(last.before) <= HistoryLimit /\ Len(backups) <= BackupsKeptOnQuota)
       => ~last.ok /\ last.error # "RangeError" /\ last.cleanups = 1

\* a write refused for want of room with six backups stored: one remediation,
\* which prunes them
SetPrunedReached ==
    /\ last.op = "set" /\ ~EveryWriteRaised
    /\ ~last.ok /\ last.cleanups = 1
    /\ Len(backups) = BackupsKeptOnQuota

\* the step leaves the number of records, their order and every record but
\* the one at index as they were, and that one keeps its id and createdAt
OnlyRecordChanged(index) ==
    /\ Len(txs') = Len(txs)
    /\ \A i \in DOMAIN txs : i # index => txs'[i] = txs[i]
    /\ txs'[index].id = txs[index].id
    /\ txs'[index].createdAt = txs[index].createdAt

\* C28: an update(id, patch) that succeeds changes only the record that had
\* the id: the number of records, their order and every other record stay,
\* and the record keeps its id and its createdAt whatever the patch contains
C28_UpdateChangesOneRecord ==
    [][ CallStep("update") /\ last'.ok
          => OnlyRecordChanged(findIndex(txs, last'.id)) ]_vars

\* the same for the patches that contain neither id nor createdAt
UpdateChangesOneRecordPlainPatch ==
    [][ (CallStep("update") /\ last'.ok
           /\ DOMAIN last'.input \cap {"id", "createdAt"} = {})
          => OnlyRecordChanged(findIndex(txs, last'.id)) ]_vars

\* an update of the amount that succeeded in a store of two records
PlainPatchReached ==
    /\ last.op = "update" /\ last.ok /\ last.input = [amount |-> 7]
    /\ Len(txs) = 2

\* backupData has its transactions and its categories
Complete(backupData) ==
    ~backupData.null /\ {"transactions", "categories"} \subseteq DOMAIN backupData

\* C29: storage.backup() and storage.restore(backupData) report success only
\* if every write they issued was persisted; restore with data that lacks
\* transactions or categories fails and writes nothing; after a restore that
\* reports success the persisted transactions and categories are those of
\* backupData
C29_SuccessMeansPersisted ==
    /\ (last.op \in {"backup", "restore"} /\ last.ok) => last.persisted
    /\ (last.op = "restore" /\ ~Complete(last.input))
          => ~last.ok /\ ~last.wrote /\ txs = last.before
    /\ (last.op = "restore" /\ last.ok)
          => /\ txs = last.input.transactions
             /\ last.value.categories = last.input.categories

\* restore with data that lacks transactions or categories fails and writes
\* nothing; a restore all of whose writes were persisted leaves the
\* transactions and categories of backupData
RestoreRejectsOrPersists ==
    /\ (last.op = "restore" /\ ~Complete(last.input))
          => ~last.ok /\ ~last.wrote /\ txs = last.before
    /\ (last.op = "restore" /\ last.persisted)
          => /\ last.ok
             /\ txs = last.input.transactions
             /\ last.value.categories = last.input.categories

\* a restore whose writes were persisted and changed both lists
RestorePersistedReached ==
    /\ last.op = "restore" /\ last.persisted
    /\ txs # last.before /\ txs # <<>>
    /\ last.value.categories # StoredCategories

\* what the four rules added to the score
DeltaSum(result) ==
    result.deltas[1] + result.deltas[2] + result.deltas[3] + result.deltas[4]

\* C30: the score calculateFinancialHealthScore returns is never below 40,
\* whatever the store holds, since the four rules subtract at most 10, 10, 15
\* and 25 from 100; and it is 100 whenever the four rules together subtract
\* nothing
C30_ScoreAtLeast40 ==
    last.op = "calculateFinancialHealthScore"
       => /\ last.ok
          /\ last.value.score >= 40
          /\ DeltaSum(last.value) >= 0 => last.value.score = 100

\* the same of the four rules and the cap applied to given measures
RulesScoreAtLeast40 ==
    last.op = "healthRules"
       => /\ last.value.score >= 40
          /\ DeltaSum(last.value) >= 0 => last.value.score = 100
          /\ DeltaSum(last.value) < 0 => last.value.score = 100 + DeltaSum(last.value)

\* rules that subtract more than they add
RulesBelow100Reached ==
    /\ last.op = "healthRules"
    /\ DeltaSum(last.value) < 0
    /\ last.value.score \in 41..99

====
